---- MODULE Spec2Model ----
(***************************************************************************)
(* Robust LLM invocation layer of TourlyAI (python/core/llm_provider.py,   *)
(* python/core/llm_utils.py).                                              *)
(*                                                                         *)
(* The module models RobustStructuredChain.invoke as a state machine: one  *)
(* step per iteration of its retry loop, one step for the code after the   *)
(* loop.  The backend (self.llm.invoke) is the environment: on each call   *)
(* it raises or returns one of a fixed set of response texts.  A response  *)
(* text is described by what the library calls of the code make of it      *)
(* (str.strip, PydanticOutputParser.parse, json.loads, ast.literal_eval,   *)
(* pydantic validation).                                                   *)
(*                                                                         *)
(* The other parts of the layer have their own variables and their own     *)
(* specification, the variables of the parts a specification does not      *)
(* exercise staying at rest: RetryConfig.get_delay (SpecDelay), the        *)
(* LLMProvider singleton with its callers (SpecProveedor),                 *)
(* extraer_json_de_respuesta on responses spelled out character by         *)
(* character (SpecTexto), con_reintentos (SpecReintentos), the summary     *)
(* helpers of phases 7 and 8 (SpecResumen), reparar_json and json.loads    *)
(* (SpecCandidato, SpecReparar), the command bridge of api_bridge.py       *)
(* (SpecPuente) and LLMProvider() called by several threads (SpecHilos).   *)
(***************************************************************************)
EXTENDS Integers, Sequences, FiniteSets

\* Largest retry budget (max_retries) a chain is built or invoked with.
MaxRetries == 2

VARIABLES
    pc,                 \* "nuevo" | "listo" | "bucle" | "fin": position of the caller / of invoke
    self_max_retries,   \* RobustStructuredChain.max_retries
    max_retries_creacion, \* the max_retries given to crear_chain_robusto, None when built directly
    input_data,         \* invoke argument: "completo" | "incompleto" (a placeholder is unbound)
    default_value,      \* invoke argument: a member of DefaultValues
    max_retries,        \* invoke argument: None or an integer
    retries,            \* local of invoke
    intento,            \* loop variable of invoke
    ultimo_error,       \* local of invoke
    ultima_respuesta,   \* local of invoke
    resultado,          \* how invoke ended: the value returned or the exception raised
    historial,          \* what the backend did on each llm.invoke of this invoke, in order
    n_intentos,         \* loop iterations started in this invoke
    n_render,           \* calls of self.prompt.format in this invoke
    n_llm,              \* calls of self.llm.invoke in this invoke
    n_parser,           \* calls of self.parser.parse in this invoke
    n_seguro,           \* calls of parsear_pydantic_seguro in this invoke
    n_espera,           \* calls of time.sleep in this invoke
    cancelado           \* the caller's stop signal (PipelineAPI.should_stop) is raised

varsInvoke == <<pc, self_max_retries, max_retries_creacion, input_data, default_value, max_retries, retries,
                intento, ultimo_error, ultima_respuesta, resultado, historial,
                n_intentos, n_render, n_llm, n_parser, n_seguro, n_espera, cancelado>>

\* RetryConfig and the delays get_delay has returned.
VARIABLES
    initial_delay,      \* RetryConfig.initial_delay, in seconds
    max_delay,          \* RetryConfig.max_delay, in seconds
    exponential_base,   \* RetryConfig.exponential_base
    jitter,             \* RetryConfig.jitter
    delays              \* delays[k+1]: what get_delay(k) returned, in quarters of a second

varsDelay == <<initial_delay, max_delay, exponential_base, jitter, delays>>

\* ConfigLLM, the LLMProvider singleton and the last call made on it.
VARIABLES
    LLM_MODE,           \* ConfigLLM.LLM_MODE: "api" | "local" | "none"
    OPENAI_API_KEY,     \* ConfigLLM.OPENAI_API_KEY: "" when unset
    OLLAMA_MODEL,       \* ConfigLLM.OLLAMA_MODEL: "" when unset
    cls_instance,       \* LLMProvider._instance is not None
    inst_llm,           \* _llm as LLMProvider._instance reads it: NoneObj or a handle
    n_clientes,         \* calls of ChatOpenAI(...) / ChatOllama(...) so far
    n_sondas,           \* liveness probes (self._llm.invoke in _validar_*) so far
    chain_llm,          \* self.llm of the RobustStructuredChain built last, NoneObj for none
    ultimo              \* the last operation on the provider and how it ended

varsProveedor == <<LLM_MODE, OPENAI_API_KEY, OLLAMA_MODEL, cls_instance, inst_llm,
                   n_clientes, n_sondas, chain_llm, ultimo>>

\* A response spelled out and what extraer_json_de_respuesta makes of it.
VARIABLES
    prosa_antes,        \* the text before the JSON object of the response
    objeto,             \* the JSON object of the response
    prosa_despues,      \* the text after the JSON object
    respuesta,          \* the response: prosa_antes, objeto, prosa_despues in a row
    json_str,           \* what extraer_json_de_respuesta(respuesta) returned
    extraido            \* extraer_json_de_respuesta has been called

varsTexto == <<prosa_antes, objeto, prosa_despues, respuesta, json_str, extraido>>

\* One call of a function wrapped with con_reintentos.
VARIABLES
    cr_pc,              \* "reposo" | "bucle" | "fin": position of the wrapper
    cr_max_retries,     \* config.max_retries
    cr_reintentables,   \* excepciones_reintentables
    cr_on_retry,        \* an on_retry callback was given
    cr_intento,         \* loop variable of wrapper
    cr_ultimo_error,    \* local of wrapper
    cr_llamadas,        \* how each call of func ended, in order
    cr_avisos,          \* the attempt numbers on_retry was called with, in order
    cr_resultado        \* how the wrapper ended

varsReintentos == <<cr_pc, cr_max_retries, cr_reintentables, cr_on_retry, cr_intento,
                    cr_ultimo_error, cr_llamadas, cr_avisos, cr_resultado>>

\* One call of _invocar_llm_con_retry of phase 7 or 8.
VARIABLES
    ir_pc,              \* "reposo" | "bucle" | "fin": position of the helper
    ir_fase,            \* "fase_07" | "fase_08": whose helper it is
    ir_max_retries,     \* argument max_retries
    ir_intento,         \* loop variable (intento / attempt)
    ir_ultimo_error,    \* local ultimo_error / last_error
    ir_historial,       \* how each attempt ended, in order
    ir_invocaciones,    \* calls of chain.invoke in this call of the helper
    ir_resultado        \* how the helper ended

varsResumen == <<ir_pc, ir_fase, ir_max_retries, ir_intento, ir_ultimo_error,
                 ir_historial, ir_invocaciones, ir_resultado>>

\* A response put together from its parts, and what extraer_json_de_respuesta,
\* reparar_json and json.loads make of it.
VARIABLES
    rc_antes,           \* the prose before the blocks
    rc_bloques,         \* the blocks: [etiqueta, contenido], in order
    rc_despues,         \* the prose after the blocks
    rc_valor,           \* the JSON text the response was built around, <<>> for none
    rc_respuesta,       \* the response
    rc_json_str,        \* extraer_json_de_respuesta(rc_respuesta)
    rc_reparado,        \* reparar_json(rc_json_str)
    rc_otra_vez,        \* reparar_json(rc_reparado)
    rc_data,            \* json.loads(rc_reparado)
    rc_paso             \* "reposo" | "respuesta" | "extraido" | "reparado" | "parseado" | "otra_vez"

varsCandidato == <<rc_antes, rc_bloques, rc_despues, rc_valor, rc_respuesta, rc_json_str,
                   rc_reparado, rc_otra_vez, rc_data, rc_paso>>

\* The PipelineAPI object of api_bridge.py, the rollback manager's session and
\* the command being answered.
VARIABLES
    PIPELINE_AVAILABLE, \* the pipeline classes were imported
    rollback_manager,   \* self.rollback_manager is set (ROLLBACK_AVAILABLE)
    current_phase,      \* self.current_phase: NoneInt or <<phase>>
    should_stop,        \* self.should_stop
    current_session_id, \* self._current_session_id: NoneInt or the id of a session
    rm_sesion,          \* the session begun last and the calls made on it, NoneObj for none
    pb_pc,              \* "idle" | "run_all": execute is waiting or inside the loop of _run_all
    pb_phase,           \* loop variable of _run_all
    results,            \* the list results of _run_all: the status of each result
    llamada,            \* the last call of _run_phase and how it ended
    respuesta_cmd       \* the command answered last

varsPuente == <<PIPELINE_AVAILABLE, rollback_manager, current_phase, should_stop,
                current_session_id, rm_sesion, pb_pc, pb_phase, results, llamada,
                respuesta_cmd>>

\* Threads calling LLMProvider().get_llm() at the same time.
VARIABLES
    th_pc,              \* the position of each thread
    th_instance,        \* LLMProvider._instance: the object it holds
    th_llm,             \* _llm of each object: the client it holds
    th_self,            \* the object each thread got from __new__
    th_clientes,        \* clients built so far
    th_sondas,          \* the clients probed so far, in order
    th_obtenido         \* the client get_llm() returned to each thread

varsHilos == <<th_pc, th_instance, th_llm, th_self, th_clientes, th_sondas, th_obtenido>>

vars == <<varsInvoke, varsDelay, varsProveedor, varsTexto, varsReintentos, varsResumen,
          varsCandidato, varsPuente, varsHilos>>

\* The variables each part of the layer leaves alone.
varsFueraDeInvoke ==
    <<varsDelay, varsProveedor, varsTexto, varsReintentos, varsResumen, varsCandidato,
      varsPuente, varsHilos>>
varsFueraDeDelay ==
    <<varsInvoke, varsProveedor, varsTexto, varsReintentos, varsResumen, varsCandidato,
      varsPuente, varsHilos>>
varsFueraDeProveedor ==
    <<varsInvoke, varsDelay, varsTexto, varsReintentos, varsResumen, varsCandidato,
      varsPuente, varsHilos>>
varsFueraDeTexto ==
    <<varsInvoke, varsDelay, varsProveedor, varsReintentos, varsResumen, varsCandidato,
      varsPuente, varsHilos>>
varsFueraDeReintentos ==
    <<varsInvoke, varsDelay, varsProveedor, varsTexto, varsResumen, varsCandidato,
      varsPuente, varsHilos>>
varsFueraDeResumen ==
    <<varsInvoke, varsDelay, varsProveedor, varsTexto, varsReintentos, varsCandidato,
      varsPuente, varsHilos>>
varsFueraDeCandidato ==
    <<varsInvoke, varsDelay, varsProveedor, varsTexto, varsReintentos, varsResumen,
      varsPuente, varsHilos>>
varsFueraDePuente ==
    <<varsInvoke, varsDelay, varsProveedor, varsTexto, varsReintentos, varsResumen,
      varsCandidato, varsHilos>>
varsFueraDeHilos ==
    <<varsInvoke, varsDelay, varsProveedor, varsTexto, varsReintentos, varsResumen,
      varsCandidato, varsPuente>>

-----------------------------------------------------------------------------
(* Values *)

\* Python's None, where a string (an error, parsed data, a default), a record
\* (a text, a value) or an integer is expected.
None == "None"
NoneObj == [none |-> TRUE]
NoneInt == <<>>

\* default_value of invoke: None, the empty dict for a schema whose fields all
\* have defaults, the empty dict for a schema with a required field, a
\* non-empty dict that validates, a non-empty dict that does not.
DefaultValues == {None, "vacio_valido", "vacio_invalido", "valido", "invalido"}

\* Python truthiness of a dict or None: `if valores_default:`.
Truthy(d) == d \in {"valido", "invalido"}

\* modelo(**d) raises no ValidationError.
Valida(d) == d \in {"vacio_valido", "valido"}

\* Response texts.  vacio: texto == ''.  blanco: texto.strip() == ''.
\* strict: PydanticOutputParser.parse(texto) succeeds.  candidato: what
\* extraer_json_de_respuesta finds and which tier of parsear_json_seguro reads
\* it ("ninguno": no candidate; "json": json.loads reads it; "reparable":
\* json.loads reads it after reparar_json; "literal": only ast.literal_eval
\* reads it; "roto": nothing reads it).  datos: the parsed value ("dict_ok": a
\* dict the schema accepts; "dict_mal": a dict the schema rejects; "lista": not
\* a dict).  largo: len(texto).
LargoCorto == 40
LargoLargo == 450

Texto(v, b, s, c, d) ==
    [vacio |-> v, blanco |-> b, strict |-> s, candidato |-> c, datos |-> d,
     largo |-> IF v THEN 0 ELSE LargoCorto]

TextoVacio     == Texto(TRUE, TRUE, FALSE, "ninguno", "nada")     \* ""
TextoBlanco    == Texto(FALSE, TRUE, FALSE, "ninguno", "nada")    \* "  \n"
TextoLimpio    == Texto(FALSE, FALSE, TRUE, "json", "dict_ok")    \* {"label": "x"}
TextoCercado   == Texto(FALSE, FALSE, FALSE, "reparable", "dict_ok") \* Sure! ```json {'label': 'x'} ```
TextoLiteral   == Texto(FALSE, FALSE, FALSE, "literal", "dict_ok")   \* {"label": 'x', }
\* I cannot answer that ... (450 characters of prose)
TextoProsa     == [Texto(FALSE, FALSE, FALSE, "ninguno", "nada") EXCEPT !.largo = LargoLargo]
TextoRoto      == Texto(FALSE, FALSE, FALSE, "roto", "nada")      \* {"label": "x" "y"}
TextoOtroCampo == Texto(FALSE, FALSE, FALSE, "json", "dict_mal")  \* {"other": 1}
TextoLista     == Texto(FALSE, FALSE, FALSE, "json", "lista")     \* [1, 2]

Textos == {TextoVacio, TextoBlanco, TextoLimpio, TextoCercado, TextoLiteral,
           TextoProsa, TextoRoto, TextoOtroCampo, TextoLista}

\* What one call of self.llm.invoke does: raise an error the classifier takes
\* for quota exhaustion, raise any other error, or return a text.
ErrorCuota == [error |-> "QuotaError"]
ErrorRed   == [error |-> "ConnectionError"]
Backend == {ErrorCuota, ErrorRed} \cup Textos

SinResultado == [tipo |-> "ninguno"]

-----------------------------------------------------------------------------
(* llm_utils.py *)

\* The classifier of terminal errors.
is_openai_quota_error(e) == e = "QuotaError"

\* Faulty variant of parsear_json_seguro: the repair tier is missing.
parsear_json_sin_reparar(texto) ==
    IF texto.vacio THEN None
    ELSE IF texto.candidato = "ninguno" THEN None
    ELSE IF texto.candidato = "json" THEN texto.datos
    ELSE IF texto.candidato = "literal" THEN texto.datos
    ELSE None

\* parsear_json_seguro: None, or the parsed data.
parsear_json_seguro(texto) ==
    IF texto.vacio THEN None                                  \* if not texto
    ELSE IF texto.candidato = "ninguno" THEN None             \* if not json_str
    ELSE IF texto.candidato = "json" THEN texto.datos         \* json.loads(json_str)
    ELSE IF texto.candidato = "reparable" THEN texto.datos    \* json.loads(reparar_json(json_str))
    ELSE IF texto.candidato = "literal" THEN texto.datos      \* ast.literal_eval(json_str)
    ELSE None

\* The `if valores_default:` fallback that parsear_pydantic_seguro repeats.
DefaultDeSeguro(valores_default) ==
    IF Truthy(valores_default)                                \* if valores_default:
    THEN IF Valida(valores_default)                           \* return modelo(**valores_default)
         THEN [fin |-> "return",
               valor |-> [fuente |-> "default_por_intento", de |-> valores_default]]
         ELSE [fin |-> "return", valor |-> NoneObj]           \* except ValidationError: return None
    ELSE [fin |-> "return", valor |-> NoneObj]

\* parsear_pydantic_seguro(texto, modelo, valores_default): what it returns or
\* raises.  modelo(**data) with data not a mapping raises TypeError, which its
\* `except ValidationError` does not catch.
parsear_pydantic_seguro(texto, valores_default) ==
    IF texto.vacio THEN DefaultDeSeguro(valores_default)
    ELSE LET data == parsear_json_seguro(texto) IN
         IF data = None THEN DefaultDeSeguro(valores_default)
         ELSE IF data = "dict_ok"
              THEN [fin |-> "return", valor |-> [fuente |-> "parsear_pydantic_seguro", de |-> texto]]
         ELSE IF data = "dict_mal" THEN DefaultDeSeguro(valores_default)
         ELSE [fin |-> "raise", error |-> "TypeError"]

-----------------------------------------------------------------------------
(* llm_provider.py: RobustStructuredChain *)

\* retries = max_retries if max_retries is not None else self.max_retries
RetriesEfectivo(mr, self_mr) == IF mr # NoneInt THEN mr[1] ELSE self_mr

\* Faulty variant of EnRango: one iteration too many.
EnRangoUnoDeMas(i, r) == i <= r + 1

\* for intento in range(retries + 1): whether iteration i runs.
EnRango(i, r) == i < r + 1

\* self.prompt.format(**input_data): the prompt, or KeyError when a
\* placeholder of the template is not bound by input_data.
PromptFormat(inp) == IF inp = "completo" THEN "prompt" ELSE "KeyError"

\* Faulty variant of FormateaEnIntento: the prompt is formatted before the
\* first attempt only.
FormateaSoloPrimero(i) == i = 0

\* Whether iteration i of the loop formats the prompt: the call is the first
\* statement of the loop body, so every iteration does.
FormateaEnIntento(i) == i >= 0

\* Faulty variant of RespuestaVacia: the strip() test is missing.
RespuestaVaciaSinStrip(texto) == texto.vacio

\* if not texto or texto.strip() == ''
RespuestaVacia(texto) == texto.vacio \/ texto.blanco

\* The body of the try block of iteration i, with the backend doing b on the
\* call of llm.invoke: how the body ends (fin, valor / error) and what it did
\* on the way (render, llamo, texto, parser, seguro).
CuerpoIntento(i, inp, b, def) ==
    LET base == [fin |-> "raise", error |-> "KeyError", valor |-> NoneObj,
                 render |-> FormateaEnIntento(i), llamo |-> FALSE, texto |-> NoneObj,
                 parser |-> FALSE, seguro |-> FALSE]
    IN
    IF FormateaEnIntento(i) /\ PromptFormat(inp) = "KeyError"
    THEN base                                             \* self.prompt.format(**input_data) raises
    ELSE IF b \notin Textos                               \* self.llm.invoke(prompt_str) raises
         THEN [base EXCEPT !.error = b.error, !.llamo = TRUE]
    ELSE LET conTexto == [base EXCEPT !.llamo = TRUE, !.texto = b] IN   \* ultima_respuesta = texto
         IF RespuestaVacia(b)
         THEN [conTexto EXCEPT !.error = "ValueError_vacia"]
         ELSE IF b.strict                                 \* return self.parser.parse(texto)
              THEN [conTexto EXCEPT !.fin = "return", !.error = None, !.parser = TRUE,
                                    !.valor = [fuente |-> "parser", de |-> b]]
         ELSE LET r == parsear_pydantic_seguro(b, def)
                  conSeguro == [conTexto EXCEPT !.parser = TRUE, !.seguro = TRUE]
              IN
              IF r.fin = "raise" THEN [conSeguro EXCEPT !.error = r.error]
              ELSE IF r.valor # NoneObj                   \* if resultado is not None: return resultado
                   THEN [conSeguro EXCEPT !.fin = "return", !.error = None, !.valor = r.valor]
              ELSE [conSeguro EXCEPT !.error = "ValueError_parse"]

\* Faulty variant of ManejarExcepcion: the error is not classified.
ManejarSinClasificar(e) == "continuar"

\* Faulty variant of ManejarExcepcion: `except ValueError` in place of
\* `except Exception`, so that any other error leaves invoke as it is.
ManejarSoloValueError(e) ==
    IF e = "QuotaError" THEN "LLMQuotaExhaustedError"
    ELSE IF e \in {"ValueError_vacia", "ValueError_parse"} THEN "continuar"
    ELSE e

\* except Exception as e: what the handler of the loop does with e.
\* "continuar": e is recorded in ultimo_error and the loop goes on.
ManejarExcepcion(e) ==
    IF is_openai_quota_error(e) THEN "LLMQuotaExhaustedError" ELSE "continuar"

\* if intento < retries: logger.info('Reintentando...'): whether the handler
\* sleeps before the next iteration.  It logs and goes on at once.
DuermeTrasFallo(i, r) == FALSE

\* The longest excerpt of the last response that the error message quotes.
LimiteRespuesta == 300

\* Faulty variant of Recortar: the response is quoted whole.
RecortarNada(resp) == [de |-> resp, largo |-> resp.largo]

\* ultima_respuesta[:300]: the response quoted and the length of the excerpt.
Recortar(resp) ==
    [de |-> resp, largo |-> IF resp.largo < LimiteRespuesta THEN resp.largo ELSE LimiteRespuesta]

\* if ultima_respuesta: error_msg += ...: what the error message quotes of
\* the response, NoneObj for nothing.
RespuestaEnMensaje(resp) ==
    IF resp # NoneObj /\ ~resp.vacio THEN Recortar(resp) ELSE NoneObj

\* Faulty variant of DespuesDelBucle: the default is not used.
DespuesDelBucleSinDefault(def, err, resp) ==
    [tipo |-> "LLMRetryExhaustedError", ultimo_error |-> err,
     ultima_respuesta |-> RespuestaEnMensaje(resp)]

\* The code after the loop: the default if it validates, else the error.
DespuesDelBucle(def, err, resp) ==
    IF def # None /\ Valida(def)
    THEN [tipo |-> "valor", valor |-> [fuente |-> "default_final", de |-> def]]
    ELSE [tipo |-> "LLMRetryExhaustedError", ultimo_error |-> err,
          ultima_respuesta |-> RespuestaEnMensaje(resp)]

-----------------------------------------------------------------------------
(* Actions *)

\* No chain has been built and no invoke is in progress.
InvokeEnReposo ==
    /\ pc = "nuevo"
    /\ self_max_retries = 0
    /\ max_retries_creacion = NoneInt
    /\ input_data = "completo"
    /\ default_value = None
    /\ max_retries = NoneInt
    /\ retries = 0
    /\ intento = 0
    /\ ultimo_error = None
    /\ ultima_respuesta = NoneObj
    /\ resultado = SinResultado
    /\ historial = <<>>
    /\ n_intentos = 0
    /\ n_render = 0
    /\ n_llm = 0
    /\ n_parser = 0
    /\ n_seguro = 0
    /\ n_espera = 0
    /\ cancelado = FALSE

\* No RetryConfig is in use.
DelayEnReposo ==
    /\ initial_delay = 0
    /\ max_delay = 0
    /\ exponential_base = 0
    /\ jitter = FALSE
    /\ delays = <<>>

\* What `ultimo` holds: the operation and its argument, ConfigLLM.LLM_MODE
\* when it was called, the exception raised by the provider calls of the
\* operation (None: none), how the operation itself ended, the handle it
\* returned, the clients it built, the probes it sent, whether it went on to
\* invoke a chain.
Operacion(op, arg, error, res, llm, clientes, sondas, invoco) ==
    [op |-> op, arg |-> arg, modo_antes |-> LLM_MODE, error |-> error, res |-> res,
     llm |-> llm, clientes |-> clientes, sondas |-> sondas, invoco |-> invoco]

SinOperacion == Operacion("ninguna", None, None, "return", NoneObj, 0, 0, FALSE)

\* The provider has not been used: config.py's defaults with no environment.
ProveedorEnReposo ==
    /\ LLM_MODE = "local"
    /\ OPENAI_API_KEY = ""
    /\ OLLAMA_MODEL = ""
    /\ cls_instance = FALSE
    /\ inst_llm = NoneObj
    /\ n_clientes = 0
    /\ n_sondas = 0
    /\ chain_llm = NoneObj
    /\ ultimo = SinOperacion

\* No response is at hand.
TextoEnReposo ==
    /\ prosa_antes = <<>>
    /\ objeto = <<>>
    /\ prosa_despues = <<>>
    /\ respuesta = <<>>
    /\ json_str = <<>>
    /\ extraido = FALSE

\* No wrapped function has been called.
ReintentosEnReposo ==
    /\ cr_pc = "reposo"
    /\ cr_max_retries = 0
    /\ cr_reintentables = {}
    /\ cr_on_retry = FALSE
    /\ cr_intento = 0
    /\ cr_ultimo_error = None
    /\ cr_llamadas = <<>>
    /\ cr_avisos = <<>>
    /\ cr_resultado = SinResultado

\* No response has been put together.
CandidatoEnReposo ==
    /\ rc_antes = <<>>
    /\ rc_bloques = <<>>
    /\ rc_despues = <<>>
    /\ rc_valor = <<>>
    /\ rc_respuesta = <<>>
    /\ rc_json_str = <<>>
    /\ rc_reparado = <<>>
    /\ rc_otra_vez = <<>>
    /\ rc_data = [t |-> "nada", s |-> <<>>, m |-> {}, a |-> <<>>]
    /\ rc_paso = "reposo"

\* No summary helper has been called.
ResumenEnReposo ==
    /\ ir_pc = "reposo"
    /\ ir_fase = "fase_07"
    /\ ir_max_retries = 0
    /\ ir_intento = 0
    /\ ir_ultimo_error = None
    /\ ir_historial = <<>>
    /\ ir_invocaciones = 0
    /\ ir_resultado = SinResultado

\* No call of _run_phase has been made.
SinLlamada ==
    [env |-> "ok", fin |-> "ninguno", status |-> "ninguno", inicio |-> FALSE,
     fase_antes |-> NoneInt]

\* What `respuesta_cmd` holds: the command answered last and the command
\* answered before it.
Respuesta(action, antes) == [action |-> action, antes |-> antes]

\* PipelineAPI(): nothing runs, no stop is pending, no session is open.
PuenteEnReposo ==
    /\ PIPELINE_AVAILABLE = FALSE
    /\ rollback_manager = FALSE
    /\ current_phase = NoneInt
    /\ should_stop = FALSE
    /\ current_session_id = NoneInt
    /\ rm_sesion = NoneObj
    /\ pb_pc = "idle"
    /\ pb_phase = 0
    /\ results = <<>>
    /\ llamada = SinLlamada
    /\ respuesta_cmd = Respuesta("ninguna", "ninguna")

\* The threads that call LLMProvider().get_llm().
MaxHilos == 2
Hilos == 1..MaxHilos

\* The object that thread t creates in __new__ and the client that thread t
\* builds are numbered t; 0 stands for None.
Ninguno == 0

\* No thread has called LLMProvider().
HilosEnReposo ==
    /\ th_pc = [t \in Hilos |-> "reposo"]
    /\ th_instance = Ninguno
    /\ th_llm = [i \in Hilos |-> Ninguno]
    /\ th_self = [t \in Hilos |-> Ninguno]
    /\ th_clientes = 0
    /\ th_sondas = <<>>
    /\ th_obtenido = [t \in Hilos |-> Ninguno]

Init ==
    /\ InvokeEnReposo
    /\ PuenteEnReposo
    /\ HilosEnReposo
    /\ DelayEnReposo
    /\ ProveedorEnReposo
    /\ TextoEnReposo
    /\ ReintentosEnReposo
    /\ ResumenEnReposo
    /\ CandidatoEnReposo

\* RobustStructuredChain.__init__(..., max_retries=mr)
RobustStructuredChainInit(mr) ==
    /\ pc = "nuevo"
    /\ self_max_retries' = mr
    /\ max_retries_creacion' = NoneInt
    /\ pc' = "listo"
    /\ UNCHANGED <<input_data, default_value, max_retries, retries, intento,
                   ultimo_error, ultima_respuesta, resultado, historial,
                   n_intentos, n_render, n_llm, n_parser, n_seguro, n_espera, cancelado>>
    /\ UNCHANGED varsFueraDeInvoke

\* RobustStructuredChain.__init__: max_retries: int = 3
MaxRetriesPorDefecto == 3

\* The max_retries of the chain that crear_chain_robusto(..., max_retries=n)
\* returns: the argument is not passed on to crear_chain_estructurado_robusto,
\* whose RobustStructuredChain(...) call names no max_retries.
RetriesDeCreacion(n) == MaxRetriesPorDefecto

\* crear_chain_robusto(template, pydantic_model, max_retries=n), with an LLM
\* configured.
CrearChainRobustoConReintentos(n) ==
    /\ pc = "nuevo"
    /\ self_max_retries' = RetriesDeCreacion(n)
    /\ max_retries_creacion' = <<n>>
    /\ pc' = "listo"
    /\ UNCHANGED <<input_data, default_value, max_retries, retries, intento,
                   ultimo_error, ultima_respuesta, resultado, historial,
                   n_intentos, n_render, n_llm, n_parser, n_seguro, n_espera, cancelado>>
    /\ UNCHANGED varsFueraDeInvoke

\* invoke(input_data, default_value, max_retries): entry, up to the loop.
Invoke(inp, def, mr) ==
    /\ pc = "listo"
    /\ input_data' = inp
    /\ default_value' = def
    /\ max_retries' = mr
    /\ retries' = RetriesEfectivo(mr, self_max_retries)
    /\ ultimo_error' = None
    /\ ultima_respuesta' = NoneObj
    /\ intento' = 0
    /\ resultado' = SinResultado
    /\ historial' = <<>>
    /\ n_intentos' = 0
    /\ n_render' = 0
    /\ n_llm' = 0
    /\ n_parser' = 0
    /\ n_seguro' = 0
    /\ n_espera' = 0
    /\ cancelado' = FALSE
    /\ pc' = "bucle"
    /\ UNCHANGED <<self_max_retries, max_retries_creacion, max_retries_creacion>>
    /\ UNCHANGED varsFueraDeInvoke

\* One iteration of the loop, the backend doing b.
Intento(b) ==
    /\ pc = "bucle"
    /\ EnRango(intento, retries)
    /\ LET r == CuerpoIntento(intento, input_data, b, default_value) IN
       /\ n_intentos' = n_intentos + 1
       /\ n_render' = n_render + (IF r.render THEN 1 ELSE 0)
       /\ n_llm' = n_llm + (IF r.llamo THEN 1 ELSE 0)
       /\ n_parser' = n_parser + (IF r.parser THEN 1 ELSE 0)
       /\ n_seguro' = n_seguro + (IF r.seguro THEN 1 ELSE 0)
       /\ historial' = IF r.llamo THEN Append(historial, b) ELSE historial
       /\ ultima_respuesta' = IF r.texto # NoneObj THEN r.texto ELSE ultima_respuesta
       /\ IF r.fin = "return"
          THEN /\ resultado' = [tipo |-> "valor", valor |-> r.valor]
               /\ pc' = "fin"
               /\ UNCHANGED <<ultimo_error, intento, n_espera>>
          ELSE LET h == ManejarExcepcion(r.error) IN
               IF h = "continuar"
               THEN /\ ultimo_error' = r.error
                    /\ intento' = intento + 1
                    /\ n_espera' = n_espera + (IF DuermeTrasFallo(intento, retries) THEN 1 ELSE 0)
                    /\ UNCHANGED <<resultado, pc>>
               ELSE /\ resultado' = [tipo |-> h]
                    /\ pc' = "fin"
                    /\ UNCHANGED <<ultimo_error, intento, n_espera>>
    /\ UNCHANGED <<self_max_retries, max_retries_creacion, input_data, default_value, max_retries, retries, cancelado>>
    /\ UNCHANGED varsFueraDeInvoke

\* The loop is over: default or LLMRetryExhaustedError.
Agotado ==
    /\ pc = "bucle"
    /\ ~EnRango(intento, retries)
    /\ resultado' = DespuesDelBucle(default_value, ultimo_error, ultima_respuesta)
    /\ pc' = "fin"
    /\ UNCHANGED <<self_max_retries, max_retries_creacion, input_data, default_value, max_retries, retries,
                   intento, ultimo_error, ultima_respuesta, historial,
                   n_intentos, n_render, n_llm, n_parser, n_seguro, n_espera, cancelado>>
    /\ UNCHANGED varsFueraDeInvoke

\* PipelineAPI._stop while invoke is between two attempts: the caller's stop
\* signal is raised.  invoke takes no such signal and reads none.
Cancelar ==
    /\ pc = "bucle"
    /\ n_intentos >= 1
    /\ ~cancelado
    /\ cancelado' = TRUE
    /\ UNCHANGED <<pc, self_max_retries, max_retries_creacion, input_data, default_value, max_retries, retries,
                   intento, ultimo_error, ultima_respuesta, resultado, historial,
                   n_intentos, n_render, n_llm, n_parser, n_seguro, n_espera>>
    /\ UNCHANGED varsFueraDeInvoke

\* invoke has returned or raised: its locals are gone and the caller may
\* invoke the chain again.
Volver ==
    /\ pc = "fin"
    /\ pc' = "listo"
    /\ input_data' = "completo"
    /\ default_value' = None
    /\ max_retries' = NoneInt
    /\ retries' = 0
    /\ intento' = 0
    /\ ultimo_error' = None
    /\ ultima_respuesta' = NoneObj
    /\ resultado' = SinResultado
    /\ historial' = <<>>
    /\ n_intentos' = 0
    /\ n_render' = 0
    /\ n_llm' = 0
    /\ n_parser' = 0
    /\ n_seguro' = 0
    /\ n_espera' = 0
    /\ cancelado' = FALSE
    /\ UNCHANGED <<self_max_retries, max_retries_creacion, max_retries_creacion>>
    /\ UNCHANGED varsFueraDeInvoke

Next ==
    \/ \E mr \in 0..MaxRetries : RobustStructuredChainInit(mr)
    \/ \E n \in 0..MaxRetries : CrearChainRobustoConReintentos(n)
    \/ \E inp \in {"completo", "incompleto"}, def \in DefaultValues,
          mr \in {NoneInt} \cup {<<n>> : n \in 0..MaxRetries} : Invoke(inp, def, mr)
    \/ \E b \in Backend : Intento(b)
    \/ Agotado
    \/ Cancelar
    \/ Volver

Spec == Init /\ [][Next]_vars

-----------------------------------------------------------------------------
(* Properties of RobustStructuredChain.invoke *)

\* The retry budget of the invoke in progress, from its arguments.
Presupuesto == IF max_retries = NoneInt THEN self_max_retries ELSE max_retries[1]

EnInvoke == pc \in {"bucle", "fin"}

\* The loop ran to its end: every iteration failed.
BucleAgotado == pc = "fin" /\ intento = Presupuesto + 1

\* The value invoke returned comes from default_value.
EsDefault(res) ==
    /\ res.tipo = "valor"
    /\ res.valor.fuente \in {"default_por_intento", "default_final"}

\* A text that is not blank and that no parser of invoke turns into a schema value.
Imparseable(b) ==
    /\ b \in Textos
    /\ ~b.blanco
    /\ ~b.strict
    /\ ~(b.candidato \in {"json", "reparable", "literal"} /\ b.datos = "dict_ok")

\* A text that a parser of invoke turns into a schema value.
Parseable(b) ==
    /\ b \in Textos
    /\ ~b.blanco
    /\ \/ b.strict
       \/ b.candidato \in {"json", "reparable", "literal"} /\ b.datos = "dict_ok"

\* C1: an invoke with retry budget r (the max_retries argument, else the
\* chain's max_retries) calls the backend at most r+1 times, and
\* LLMRetryExhaustedError is raised only after exactly r+1 attempts.
C1_AtMostBudgetPlusOne ==
    EnInvoke =>
        /\ n_llm <= Presupuesto + 1
        /\ n_intentos <= Presupuesto + 1
        /\ (resultado.tipo = "LLMRetryExhaustedError" => n_intentos = Presupuesto + 1)

\* An invoke whose max_retries argument overrides the chain's ends exhausted
\* after a backend call on each of its attempts.
C1_Witness ==
    /\ pc = "fin"
    /\ resultado.tipo = "LLMRetryExhaustedError"
    /\ max_retries # NoneInt
    /\ max_retries[1] # self_max_retries
    /\ Presupuesto >= 1
    /\ n_llm = Presupuesto + 1

\* C2: a backend error classified as terminal ends the invoke at once: it is
\* the last backend call of the invoke, whatever budget remains, invoke raises
\* LLMQuotaExhaustedError, and a backend that only raises such errors is called
\* exactly once.
C2_TerminalShortCircuit ==
    /\ Len(historial) = n_llm
    /\ \A k \in 1..Len(historial) :
          historial[k] = ErrorCuota =>
              /\ k = Len(historial)
              /\ pc = "fin"
              /\ resultado.tipo = "LLMQuotaExhaustedError"
    /\ (/\ pc = "fin"
        /\ historial # <<>>
        /\ \A k \in 1..Len(historial) : historial[k] = ErrorCuota) => n_llm = 1

\* A terminal error on the second attempt with budget left.
C2_Witness ==
    /\ pc = "fin"
    /\ Len(historial) = 2
    /\ historial[2] = ErrorCuota
    /\ n_intentos < Presupuesto + 1
    /\ resultado.tipo = "LLMQuotaExhaustedError"

\* C3 (as claimed): with a backend that returns unparsable text on every
\* attempt and a default that validates, invoke returns the default-derived
\* value only after exactly max_retries+1 backend calls.
C3_DefaultAfterAllAttempts ==
    (/\ pc = "fin"
     /\ input_data = "completo"
     /\ Valida(default_value)
     /\ historial # <<>>
     /\ \A k \in 1..Len(historial) : Imparseable(historial[k]))
    => /\ EsDefault(resultado)
       /\ n_llm = Presupuesto + 1

\* C4 (as claimed): the default is never applied on an individual attempt: a
\* default-derived value is returned only when every attempt of the budget
\* has been made.
C4_DefaultNotPerAttempt ==
    (pc = "fin" /\ EsDefault(resultado)) => n_intentos = Presupuesto + 1

\* C5 (as claimed): whenever a default was supplied and all attempts fail,
\* invoke returns a default-derived value and raises no exhausted error.
C5_DefaultSuppliedSuppresses ==
    (BucleAgotado /\ default_value # None) => EsDefault(resultado)

\* C5 (amended): whenever a default that validates against the schema was
\* supplied and all attempts fail, invoke returns a default-derived value and
\* raises no exhausted error.
C5_ValidDefaultSuppresses ==
    (BucleAgotado /\ Valida(default_value)) =>
        /\ EsDefault(resultado)
        /\ resultado.valor.de = default_value

\* Every attempt of a budget of at least two attempts failed at the backend
\* or on an empty response, and the default was returned.
C5_Witness ==
    /\ BucleAgotado
    /\ Valida(default_value)
    /\ n_llm >= 2
    /\ n_llm = Presupuesto + 1
    /\ EsDefault(resultado)

\* Blank and non-blank response texts; an invoke whose backend calls all
\* returned blank texts.
Blanco(b) == b \in Textos /\ (b.vacio \/ b.blanco)
NoBlanco(b) == b \in Textos /\ ~(b.vacio \/ b.blanco)
SoloBlancos == historial # <<>> /\ \A k \in 1..Len(historial) : Blanco(historial[k])

\* C6: an empty or whitespace-only response is a transient failure of its
\* attempt: no parser runs on it (the strict parser runs once per non-blank
\* response, the tolerant one at most as often), it uses up exactly one attempt
\* and is recorded as the attempt's error; and with a backend that always
\* returns the empty string, max_retries = 2 and no default, invoke raises
\* LLMRetryExhaustedError after exactly 3 backend calls.
C6_EmptyResponseIsTransient ==
    /\ EnInvoke =>
          /\ n_parser = Cardinality({k \in 1..Len(historial) : NoBlanco(historial[k])})
          /\ n_seguro <= n_parser
    /\ (EnInvoke /\ SoloBlancos) =>
          /\ n_parser = 0
          /\ n_seguro = 0
          /\ intento = Len(historial)
          /\ n_intentos = Len(historial)
          /\ ultimo_error = "ValueError_vacia"
          /\ (pc = "fin" => BucleAgotado)
    /\ (/\ pc = "fin"
        /\ input_data = "completo"
        /\ Presupuesto = 2
        /\ default_value = None
        /\ historial # <<>>
        /\ \A k \in 1..Len(historial) : historial[k] = TextoVacio)
       => /\ resultado.tipo = "LLMRetryExhaustedError"
          /\ n_llm = 3

\* The backend returned the empty string three times to an invoke with
\* max_retries = 2 and no default, which raised LLMRetryExhaustedError.
C6_Witness ==
    /\ pc = "fin"
    /\ Presupuesto = 2
    /\ default_value = None
    /\ historial = <<TextoVacio, TextoVacio, TextoVacio>>
    /\ resultado.tipo = "LLMRetryExhaustedError"

\* C7: as soon as an attempt parses the response into a schema-valid value,
\* invoke returns that value and calls the backend no more, even when retries
\* remain: a parseable response is the last backend call of its invoke.
C7_ReturnOnFirstSuccess ==
    \A k \in 1..Len(historial) :
        Parseable(historial[k]) =>
            /\ k = Len(historial)
            /\ pc = "fin"
            /\ resultado.tipo = "valor"
            /\ resultado.valor.fuente \in {"parser", "parsear_pydantic_seguro"}
            /\ resultado.valor.de = historial[k]

\* A response that only the tolerant parser reads is returned on the second
\* attempt of a budget of three.
C7_Witness ==
    /\ pc = "fin"
    /\ Len(historial) = 2
    /\ historial[2] = TextoCercado
    /\ Presupuesto = 2
    /\ resultado.tipo = "valor"

\* C8: every invoke ends in exactly one of three outcomes: a returned schema
\* value, LLMQuotaExhaustedError or LLMRetryExhaustedError; no failure of an
\* attempt leaves invoke as any other exception, and no outcome exists before
\* invoke has ended.
C8_ThreeOutcomes ==
    /\ pc = "fin" =>
          /\ resultado.tipo \in {"valor", "LLMQuotaExhaustedError", "LLMRetryExhaustedError"}
          /\ (resultado.tipo = "valor" => resultado.valor # NoneObj)
    /\ pc # "fin" => resultado = SinResultado

\* An invoke that met a backend error and a JSON value that is no mapping
\* (TypeError out of the tolerant parser) has ended exhausted.
C8_Witness ==
    /\ pc = "fin"
    /\ \E k \in 1..Len(historial) : historial[k] = TextoLista
    /\ \E k \in 1..Len(historial) : historial[k] = ErrorRed
    /\ resultado.tipo = "LLMRetryExhaustedError"

C10_UnboundPlaceholderFailsFast ==
    (pc = "fin" /\ input_data = "incompleto") =>
        /\ resultado.tipo = "KeyError"
        /\ n_llm = 0
        /\ n_intentos <= 1

\* C11 (as claimed): between a transient failure of attempt k (k < max_retries)
\* and the backend call of attempt k+1, invoke waits for the backoff delay:
\* every attempt after the first is preceded by a wait.
C11_WaitsBetweenAttempts ==
    EnInvoke => n_espera >= n_intentos - 1

\* C13 (as claimed): once the caller's cancellation signal is raised between
\* attempts, invoke makes no further backend call and ends instead of going
\* through the remaining attempts.
C13_CancelAborts ==
    [][(cancelado /\ pc = "bucle") => (n_llm' = n_llm /\ pc' = "fin")]_vars

\* C25 (as claimed): parsear_pydantic_seguro is total: on every response text
\* that invoke hands to it, it returns a schema instance or None and never
\* raises.
C25_SeguroNeverRaises ==
    \A k \in 1..Len(historial) :
        (NoBlanco(historial[k]) /\ ~historial[k].strict) =>
            parsear_pydantic_seguro(historial[k], default_value).fin = "return"

\* The positions of historial at which the backend returned a text, and at
\* which it returned a text other than the empty string.
ConRespuesta == {k \in 1..Len(historial) : historial[k] \in Textos}
ConRespuestaNoVacia == {k \in ConRespuesta : ~historial[k].vacio}

\* The greatest member of a non-empty set of positions.
Ultima(K) == CHOOSE k \in K : \A j \in K : j <= k

\* invoke ended with the retry-exhausted error.
Exhausto == pc = "fin" /\ resultado.tipo = "LLMRetryExhaustedError"

\* The error carries the error of the last attempt.
LlevaUltimoError ==
    /\ resultado.ultimo_error = ultimo_error
    /\ (historial # <<>> /\ historial[Len(historial)] = ErrorRed /\ Len(historial) = n_intentos)
          => resultado.ultimo_error = "ConnectionError"
    /\ (historial # <<>> /\ Blanco(historial[Len(historial)]) /\ Len(historial) = n_intentos)
          => resultado.ultimo_error = "ValueError_vacia"

\* C27 (as claimed): when all attempts fail and no default was supplied, the
\* retry-exhausted error carries the error of the last attempt and the last
\* non-empty raw response received, cut to at most its first 300 characters.
C27_CarriesLastNonEmptyResponse ==
    (Exhausto /\ default_value = None) =>
        /\ LlevaUltimoError
        /\ ConRespuestaNoVacia # {} =>
              /\ resultado.ultima_respuesta # NoneObj
              /\ resultado.ultima_respuesta.de = historial[Ultima(ConRespuestaNoVacia)]
              /\ resultado.ultima_respuesta.largo <= LimiteRespuesta

\* C27 (amended): when all attempts fail and no default was supplied, the
\* retry-exhausted error carries the error of the last attempt and the last
\* raw response received, from whichever attempt, cut to its first 300
\* characters; when that response is the empty string, or no response was
\* received, it carries no response.
C27_CarriesLastResponse ==
    (Exhausto /\ default_value = None) =>
        /\ LlevaUltimoError
        /\ IF ConRespuesta # {} /\ ~historial[Ultima(ConRespuesta)].vacio
           THEN /\ resultado.ultima_respuesta # NoneObj
                /\ resultado.ultima_respuesta.de = historial[Ultima(ConRespuesta)]
                /\ resultado.ultima_respuesta.largo =
                      (IF historial[Ultima(ConRespuesta)].largo <= LimiteRespuesta
                       THEN historial[Ultima(ConRespuesta)].largo ELSE LimiteRespuesta)
           ELSE resultado.ultima_respuesta = NoneObj

\* The backend returned a text of more than 300 characters and then failed:
\* the error quotes the first 300 characters of that text.
C27_Witness ==
    /\ Exhausto
    /\ default_value = None
    /\ Len(historial) = 2
    /\ historial[1] = TextoProsa
    /\ historial[2] = ErrorRed
    /\ resultado.ultima_respuesta # NoneObj
    /\ resultado.ultima_respuesta.largo = LimiteRespuesta

\* C28 (as claimed): a chain built with crear_chain_robusto(..., max_retries=n)
\* and invoked without a per-call max_retries makes at most n + 1 backend calls.
C28_CreationBudgetBoundsCalls ==
    (pc \in {"bucle", "fin"} /\ max_retries_creacion # NoneInt /\ max_retries = NoneInt) =>
        n_llm <= max_retries_creacion[1] + 1

\* C38 (as claimed): in the retry-exhausted error the reported raw response
\* and the reported last error belong to the same, final attempt: whenever the
\* error quotes a response, the backend returned that response in the last
\* attempt, the one whose error is reported.
C38_ResponseAndErrorOfSameAttempt ==
    (Exhausto /\ resultado.ultima_respuesta # NoneObj) =>
        /\ historial # <<>>
        /\ historial[Len(historial)] \in Textos
        /\ resultado.ultima_respuesta.de = historial[Len(historial)]

-----------------------------------------------------------------------------
(* llm_utils.py: RetryConfig *)

\* Largest attempt number get_delay is asked about.
MaxIntento == 3

\* The policies a RetryConfig is built with: the constructor checks none of
\* its arguments, so a delay or a base may be zero or negative.
InitialDelays == {-1, 0, 1, 2}
MaxDelays == {0, 3, 30}
ExponentialBases == {0, 1, 2, 3}

\* 0.5 + random.random(), a factor in [0.5, 1.5), in quarters: 0.5, 1.0, 1.25.
Azar == {2, 4, 5}

\* One as the unit delays are returned in: four quarters of a second.
Cuartos == 4

\* b ** k for an integer k >= 0; Python has 0 ** 0 = 1.
RECURSIVE Potencia(_, _)
Potencia(b, k) == IF k = 0 THEN 1 ELSE b * Potencia(b, k - 1)

\* Faulty variant of AcotarDelay: the delay is not clamped.
DelaySinAcotar(delay, tope) == delay

\* delay = min(delay, self.max_delay)
AcotarDelay(delay, tope) == IF tope < delay THEN tope ELSE delay

\* RetryConfig.get_delay(intento), the random draw being azar: the delay in
\* quarters of a second.
get_delay(ini, tope, base, jit, k, azar) ==
    LET delay == AcotarDelay(ini * Potencia(base, k), tope) IN
    IF jit THEN delay * azar ELSE delay * Cuartos

\* RetryConfig(initial_delay, max_delay, exponential_base, jitter) has been
\* built; get_delay has not been called.
InitDelay ==
    /\ InvokeEnReposo
    /\ PuenteEnReposo
    /\ HilosEnReposo
    /\ ReintentosEnReposo
    /\ ResumenEnReposo
    /\ CandidatoEnReposo
    /\ ProveedorEnReposo
    /\ TextoEnReposo
    /\ initial_delay \in InitialDelays
    /\ max_delay \in MaxDelays
    /\ exponential_base \in ExponentialBases
    /\ jitter \in BOOLEAN
    /\ delays = <<>>

\* get_delay(k) for the next attempt number k.
GetDelay(azar) ==
    /\ Len(delays) <= MaxIntento
    /\ delays' = Append(delays, get_delay(initial_delay, max_delay, exponential_base,
                                          jitter, Len(delays), azar))
    /\ UNCHANGED <<initial_delay, max_delay, exponential_base, jitter>>
    /\ UNCHANGED varsFueraDeDelay

NextDelay == \E azar \in Azar : GetDelay(azar)

SpecDelay == InitDelay /\ [][NextDelay]_vars

\* The smaller of two numbers.
Menor(a, b) == IF a <= b THEN a ELSE b

\* The delay the formula gives for attempt k, in quarters of a second.
DelayDeFormula(k) ==
    Cuartos * Menor(initial_delay * Potencia(exponential_base, k), max_delay)

\* The delays returned so far are those of the formula and none exceeds
\* max_delay; the policy (1, 30, 2) gives 1, 2, 4 for k = 0, 1, 2 and the
\* policy (1, 3, 2) gives 3 for k = 2.
DelaysDeFormula ==
    /\ \A k \in 1..Len(delays) :
          /\ delays[k] = DelayDeFormula(k - 1)
          /\ delays[k] <= Cuartos * max_delay
    /\ (initial_delay = 1 /\ max_delay = 30 /\ exponential_base = 2) =>
          \A k \in 1..Len(delays) :
              k <= 3 => delays[k] = <<1 * Cuartos, 2 * Cuartos, 4 * Cuartos>>[k]
    /\ (initial_delay = 1 /\ max_delay = 3 /\ exponential_base = 2 /\ Len(delays) >= 3) =>
          delays[3] = 3 * Cuartos

\* The delays returned so far do not decrease with the attempt number.
DelaysNoDecrecen ==
    \A k \in 2..Len(delays) : delays[k - 1] <= delays[k]

\* C12 (as claimed): with jitter disabled, get_delay(k) is
\* min(initial_delay * exponential_base^k, max_delay) for every k, never
\* exceeds max_delay and is non-decreasing in k, whatever the policy.
C12_DelayNonDecreasing ==
    ~jitter => (DelaysDeFormula /\ DelaysNoDecrecen)

\* C12 (amended): with jitter disabled, get_delay(k) is
\* min(initial_delay * exponential_base^k, max_delay) for every k and never
\* exceeds max_delay; it is non-decreasing in k when initial_delay >= 0 and
\* exponential_base >= 1.
C12_DelayNonDecreasingForGrowingPolicy ==
    ~jitter =>
        /\ DelaysDeFormula
        /\ (initial_delay >= 0 /\ exponential_base >= 1) => DelaysNoDecrecen

\* The policy (1, 3, 2) without jitter has been asked for k = 0, 1, 2 and the
\* third delay is clamped to max_delay.
C12_Witness ==
    /\ ~jitter
    /\ initial_delay = 1
    /\ max_delay = 3
    /\ exponential_base = 2
    /\ Len(delays) >= 3
    /\ delays[2] = 2 * Cuartos
    /\ delays[3] = 3 * Cuartos

-----------------------------------------------------------------------------
(* config.py: ConfigLLM; llm_provider.py: LLMProvider *)

\* Largest number of client constructions in one run.
MaxClientes == 3

\* What the environment does to one initialization: the client library is not
\* installed, the client constructor raises, the liveness probe raises, the
\* probe raises an error the classifier takes for quota exhaustion, the probe
\* returns an empty response, or all goes well.
Entornos == {"import_error", "ctor_error", "sonda_error", "sonda_cuota", "sonda_vacia", "ok"}

\* The values of ConfigLLM.LLM_MODE that config.py lets through at import.
Modos == {"api", "local", "none"}

\* Faulty variant of validar_configuracion: nothing is validated.
validar_sin_comprobar(modo, key, modelo) == "ok"

\* ConfigLLM.validar_configuracion(): "ok" (it returns True) or the exception.
validar_configuracion(modo, key, modelo) ==
    IF modo = "api" THEN (IF key = "" THEN "ValueError" ELSE "ok")
    ELSE IF modo = "local" THEN (IF modelo = "" THEN "ValueError" ELSE "ok")
    ELSE "ok"

\* How an initialization step ends: the exception (None: none), the value
\* assigned to self._llm (NoneObj: not assigned), the clients built, the
\* probes sent.
Paso(error, llm, clientes, sondas) ==
    [error |-> error, llm |-> llm, clientes |-> clientes, sondas |-> sondas]

\* A handle: the client built for mode modo by the id-th client construction.
Handle(modo, id, sondeado) == [modo |-> modo, id |-> id, sondeado |-> sondeado]

\* _validar_openai: "ok" or the exception it lets out.
validar_openai(env) ==
    LET e == IF env = "sonda_error" THEN "ConnectionError"
             ELSE IF env = "sonda_cuota" THEN "QuotaError"
             ELSE IF env = "sonda_vacia" THEN "RuntimeError"   \* if not test_response
             ELSE None
    IN IF e = None THEN "ok"
       ELSE IF is_openai_quota_error(e) THEN "LLMQuotaExhaustedError"
       ELSE e                                                  \* raise

\* _validar_ollama: "ok" or the exception it lets out.
validar_ollama(env) ==
    IF env \in {"sonda_error", "sonda_cuota", "sonda_vacia"} THEN "RuntimeError" ELSE "ok"

\* _inicializar_openai: self._llm is assigned before the probe; ImportError is
\* re-raised as ImportError and any other exception as RuntimeError.
inicializar_openai(env, id) ==
    IF env = "import_error" THEN Paso("ImportError", NoneObj, 0, 0)
    ELSE IF env = "ctor_error" THEN Paso("RuntimeError", NoneObj, 1, 0)
    ELSE LET v == validar_openai(env) IN
         Paso(IF v = "ok" THEN None ELSE "RuntimeError", Handle("api", id, v = "ok"), 1, 1)

\* _inicializar_ollama: as _inicializar_openai.
inicializar_ollama(env, id) ==
    IF env = "import_error" THEN Paso("ImportError", NoneObj, 0, 0)
    ELSE IF env = "ctor_error" THEN Paso("RuntimeError", NoneObj, 1, 0)
    ELSE LET v == validar_ollama(env) IN
         Paso(IF v = "ok" THEN None ELSE "RuntimeError", Handle("local", id, v = "ok"), 1, 1)

\* if ConfigLLM.LLM_MODE == 'none': self._llm = None; return
SinBackend(modo) == modo = "none"

\* _inicializar_llm
inicializar_llm(modo, key, modelo, env, id) ==
    IF validar_configuracion(modo, key, modelo) # "ok" THEN Paso("ValueError", NoneObj, 0, 0)
    ELSE IF SinBackend(modo) THEN Paso(None, NoneObj, 0, 0)
    ELSE IF modo = "api" THEN inicializar_openai(env, id)
    ELSE IF modo = "local" THEN inicializar_ollama(env, id)
    ELSE Paso("ValueError", NoneObj, 0, 0)

\* Faulty variant of DebeInicializar: every construction initializes.
DebeInicializarSiempre(llm) == TRUE

\* __init__: if self._llm is None
DebeInicializar(llm) == llm = NoneObj

\* LLMProvider(): __new__ and __init__ on the instance whose _llm is llm.  The
\* step's llm is self._llm afterwards.
Construir(llm, modo, key, modelo, env, id) ==
    IF DebeInicializar(llm)
    THEN LET r == inicializar_llm(modo, key, modelo, env, id) IN
         [r EXCEPT !.llm = IF r.llm = NoneObj THEN llm ELSE r.llm]
    ELSE Paso(None, llm, 0, 0)

\* Faulty variant of SinLlm: a missing handle is not noticed.
SinLlmNunca(llm) == FALSE

\* get_llm, crear_chain_simple, crear_chain_estructurado and
\* crear_chain_estructurado_robusto open with the same test:
\* if self._llm is None: raise RuntimeError(...)
SinLlm(llm) == llm = NoneObj

\* provider = LLMProvider(); provider.<method>(...): the exception, or the
\* handle the method returns or builds its chain around.
ConMetodo(c) ==
    IF c.error # None THEN [error |-> c.error, llm |-> NoneObj]
    ELSE IF SinLlm(c.llm) THEN [error |-> "RuntimeError", llm |-> NoneObj]
    ELSE [error |-> None, llm |-> c.llm]

\* Faulty variant of ModoValido: any mode is accepted.
ModoCualquiera(modo) == TRUE

\* cambiar_modo: if modo not in ['api', 'local']: raise ValueError
ModoValido(modo) == modo \in {"api", "local"}

\* Faulty variant of LlmTrasReinicio: the handle survives the change of mode.
LlmConservado(llm) == llm

\* cambiar_modo: LLMProvider._instance = None; LLMProvider._llm = None: the
\* next LLMProvider() is a new instance, which reads the class's _llm.
LlmTrasReinicio(llm) == NoneObj

\* How an operation ended, from the exception it let out.
Fin(error) == IF error = None THEN "return" ELSE "raise"

\* The state after an operation whose LLMProvider() did c.
TrasConstruir(c) ==
    /\ cls_instance' = TRUE
    /\ inst_llm' = c.llm
    /\ n_clientes' = n_clientes + c.clientes
    /\ n_sondas' = n_sondas + c.sondas

\* A further operation may build a client.
CabeCliente == n_clientes < MaxClientes

\* No provider call has been made; ConfigLLM is as the environment set it.
InitProveedor ==
    /\ InvokeEnReposo
    /\ PuenteEnReposo
    /\ HilosEnReposo
    /\ ReintentosEnReposo
    /\ ResumenEnReposo
    /\ CandidatoEnReposo
    /\ DelayEnReposo
    /\ TextoEnReposo
    /\ LLM_MODE \in Modos
    /\ OPENAI_API_KEY \in {"", "sk"}
    /\ OLLAMA_MODEL \in {"", "modelo"}
    /\ cls_instance = FALSE
    /\ inst_llm = NoneObj
    /\ n_clientes = 0
    /\ n_sondas = 0
    /\ chain_llm = NoneObj
    /\ ultimo = SinOperacion

\* LLMProvider()
LLMProviderNew(env) ==
    /\ CabeCliente
    /\ LET c == Construir(inst_llm, LLM_MODE, OPENAI_API_KEY, OLLAMA_MODEL, env, n_clientes + 1) IN
       /\ TrasConstruir(c)
       /\ ultimo' = Operacion("LLMProvider", None, c.error, Fin(c.error), NoneObj,
                              c.clientes, c.sondas, FALSE)
    /\ UNCHANGED <<LLM_MODE, OPENAI_API_KEY, OLLAMA_MODEL, chain_llm>>
    /\ UNCHANGED varsFueraDeProveedor

\* RobustStructuredChain(llm=self._llm, ...): self.llm = llm.  The chain keeps
\* the handle it was built with (capturado), whatever the provider holds
\* when the chain is invoked (actual).
LlmDeLaCadena(capturado, actual) == capturado

\* One of the operations that call LLMProvider() and then a method of it.  A
\* robust chain that was built is kept by the caller.
LlamarMetodo(op, env) ==
    /\ CabeCliente
    /\ LET c == Construir(inst_llm, LLM_MODE, OPENAI_API_KEY, OLLAMA_MODEL, env, n_clientes + 1)
           m == ConMetodo(c)
       IN
       /\ TrasConstruir(c)
       /\ ultimo' = Operacion(op, None, m.error, Fin(m.error), m.llm, c.clientes, c.sondas, FALSE)
       /\ chain_llm' = IF op = "crear_chain_estructurado_robusto" /\ m.error = None
                       THEN m.llm ELSE chain_llm
    /\ UNCHANGED <<LLM_MODE, OPENAI_API_KEY, OLLAMA_MODEL>>
    /\ UNCHANGED varsFueraDeProveedor

\* get_llm(): LLMProvider().get_llm()
GetLlm(env) == LlamarMetodo("get_llm", env)

\* crear_chain(template, pydantic_model): crear_chain_estructurado with a
\* model, crear_chain_simple without.
CrearChain(env, pydantic_model) ==
    LlamarMetodo(IF pydantic_model THEN "crear_chain_estructurado" ELSE "crear_chain_simple", env)

\* crear_chain_robusto(template, pydantic_model)
CrearChainRobusto(env) == LlamarMetodo("crear_chain_estructurado_robusto", env)

\* LLMProvider.cambiar_modo(modo)
CambiarModo(modo, env) ==
    /\ CabeCliente
    /\ IF ~ModoValido(modo)
       THEN /\ ultimo' = Operacion("cambiar_modo", modo, "ValueError", "raise", NoneObj, 0, 0, FALSE)
            /\ UNCHANGED <<LLM_MODE, cls_instance, inst_llm, n_clientes, n_sondas>>
       ELSE LET c == Construir(LlmTrasReinicio(inst_llm), modo, OPENAI_API_KEY, OLLAMA_MODEL,
                               env, n_clientes + 1)
            IN
            /\ LLM_MODE' = modo
            /\ TrasConstruir(c)
            /\ ultimo' = Operacion("cambiar_modo", modo, c.error, Fin(c.error), NoneObj,
                                   c.clientes, c.sondas, FALSE)
    /\ UNCHANGED <<OPENAI_API_KEY, OLLAMA_MODEL, chain_llm>>
    /\ UNCHANGED varsFueraDeProveedor

\* chain.invoke(input_data) on the robust chain built last: the backend call
\* of its loop, respuesta = self.llm.invoke(prompt_str), goes to the chain's
\* handle.
InvocarCadena ==
    /\ chain_llm # NoneObj
    /\ ultimo' = Operacion("chain_invoke", None, None, "return",
                           LlmDeLaCadena(chain_llm, inst_llm), 0, 0, TRUE)
    /\ UNCHANGED <<LLM_MODE, OPENAI_API_KEY, OLLAMA_MODEL, cls_instance, inst_llm,
                   n_clientes, n_sondas, chain_llm>>
    /\ UNCHANGED varsFueraDeProveedor

-----------------------------------------------------------------------------
(* fase_06_analisis_jerarquico_topicos.py: the topic-labelling caller *)

\* How the invoke of the robust chain ends for the caller: a value, or one of
\* the two errors invoke lets out.
FinesDeInvoke == {"valor", "LLMRetryExhaustedError", "LLMQuotaExhaustedError"}

\* The except clauses of _etiquetar_topicos_con_llm: keyword-based fallback
\* labels for LLMRetryExhaustedError, `raise` for LLMQuotaExhaustedError,
\* fallback labels for any other Exception.
ManejarEtiquetado(e) ==
    IF e = "LLMRetryExhaustedError" THEN "fallback"
    ELSE IF e = "LLMQuotaExhaustedError" THEN "raise"
    ELSE "fallback"

\* _etiquetar_topicos_con_llm(topic_data, ...): crear_chain_robusto, then the
\* chain's invoke, which ends as inv.
EtiquetarTopicos(topic_data, env, inv) ==
    /\ CabeCliente
    /\ IF ~topic_data                                   \* if not topic_data: return topic_names
       THEN /\ ultimo' = Operacion("etiquetar_topicos", "sin_topicos", None, "return",
                                   NoneObj, 0, 0, FALSE)
            /\ UNCHANGED <<cls_instance, inst_llm, n_clientes, n_sondas>>
       ELSE LET c == Construir(inst_llm, LLM_MODE, OPENAI_API_KEY, OLLAMA_MODEL, env, n_clientes + 1)
                m == ConMetodo(c)
                e == IF m.error # None THEN m.error
                     ELSE IF inv = "valor" THEN None ELSE inv
            IN
            /\ TrasConstruir(c)
            /\ ultimo' = Operacion("etiquetar_topicos", "con_topicos", e,
                                   IF e = None THEN "return" ELSE ManejarEtiquetado(e),
                                   m.llm, c.clientes, c.sondas, m.error = None)
    /\ UNCHANGED <<LLM_MODE, OPENAI_API_KEY, OLLAMA_MODEL, chain_llm>>
    /\ UNCHANGED varsFueraDeProveedor

NextProveedor ==
    \/ \E env \in Entornos : LLMProviderNew(env)
    \/ \E env \in Entornos : GetLlm(env)
    \/ \E env \in Entornos, pydantic_model \in BOOLEAN : CrearChain(env, pydantic_model)
    \/ \E env \in Entornos : CrearChainRobusto(env)
    \/ \E modo \in Modos \cup {"otro"}, env \in Entornos : CambiarModo(modo, env)
    \/ InvocarCadena
    \/ \E topic_data \in BOOLEAN, env \in Entornos, inv \in FinesDeInvoke :
          EtiquetarTopicos(topic_data, env, inv)

SpecProveedor == InitProveedor /\ [][NextProveedor]_vars

\* The operations that obtain or use the backend.
UsosDelBackend == {"get_llm", "crear_chain_simple", "crear_chain_estructurado",
                   "crear_chain_estructurado_robusto"}

\* C14: when the backend selection is Disabled (LLM_MODE 'none'), get_llm,
\* crear_chain_simple, crear_chain_estructurado and
\* crear_chain_estructurado_robusto fail at once with a configuration error
\* (RuntimeError), and no backend call is ever made in that mode: no client is
\* built, no liveness probe is sent and no chain is invoked.
C14_DisabledFailsWithoutBackendCall ==
    LLM_MODE = "none" =>
        /\ inst_llm = NoneObj
        /\ n_clientes = 0
        /\ n_sondas = 0
        /\ ~ultimo.invoco
        /\ ultimo.op \in UsosDelBackend =>
              /\ ultimo.res = "raise"
              /\ ultimo.error = "RuntimeError"
              /\ ultimo.llm = NoneObj

\* In mode 'none' a robust chain was asked for and refused.
C14_Witness ==
    /\ LLM_MODE = "none"
    /\ ultimo.op = "crear_chain_estructurado_robusto"
    /\ ultimo.error = "RuntimeError"

\* The backend is not configured: the mode is 'none' or a prerequisite of the
\* mode is missing.
SinConfigurar ==
    \/ LLM_MODE = "none"
    \/ validar_configuracion(LLM_MODE, OPENAI_API_KEY, OLLAMA_MODEL) # "ok"

\* C15 (as claimed): a configuration error (no backend configured) or a
\* terminal quota error raised while _etiquetar_topicos_con_llm builds or
\* invokes the robust chain always propagates to its caller; it is never
\* replaced by keyword-based fallback labels.
C15_ConfigAndQuotaErrorsPropagate ==
    (/\ ultimo.op = "etiquetar_topicos"
     /\ \/ ultimo.error = "LLMQuotaExhaustedError"
        \/ SinConfigurar /\ ultimo.error \in {"RuntimeError", "ValueError"})
    => ultimo.res = "raise"

\* A prerequisite of the mode is missing: the credential in mode 'api', the
\* model identifier in mode 'local'.
PrerequisitoAusente ==
    \/ LLM_MODE = "api" /\ OPENAI_API_KEY = ""
    \/ LLM_MODE = "local" /\ OLLAMA_MODEL = ""

\* The last operation went through LLMProvider().
PasoPorConstructor ==
    \/ ultimo.op \in UsosDelBackend \cup {"LLMProvider"}
    \/ ultimo.op = "cambiar_modo" /\ ultimo.arg \in {"api", "local"}
    \/ ultimo.op = "etiquetar_topicos" /\ ultimo.arg = "con_topicos"

\* C16: initialization validates its prerequisites before any backend call:
\* in mode 'api' with an empty credential, or mode 'local' with an empty model
\* identifier, it fails with a configuration error (ValueError), no client is
\* built and no liveness probe is sent; in mode 'local' with a model
\* identifier validar_configuracion does not raise.
C16_PrerequisitesBeforeBackendCall ==
    /\ PrerequisitoAusente =>
          /\ inst_llm = NoneObj
          /\ PasoPorConstructor =>
                /\ ultimo.error = "ValueError"
                /\ ultimo.clientes = 0
                /\ ultimo.sondas = 0
                /\ ~ultimo.invoco
    /\ (LLM_MODE = "local" /\ OLLAMA_MODEL # "") =>
          /\ validar_configuracion(LLM_MODE, OPENAI_API_KEY, OLLAMA_MODEL) = "ok"
          /\ PasoPorConstructor => ultimo.error # "ValueError"

\* After a client had been built and probed in another mode, cambiar_modo('api')
\* failed on the empty credential without building a client.
C16_Witness ==
    /\ LLM_MODE = "api"
    /\ OPENAI_API_KEY = ""
    /\ ultimo.op = "cambiar_modo"
    /\ ultimo.modo_antes = "local"
    /\ ultimo.error = "ValueError"
    /\ n_clientes >= 1
    /\ n_sondas >= 1

\* C17: after one successful initialization, further LLMProvider()
\* constructions, get_llm() calls and chain creations (without cambiar_modo)
\* build no further client and send no further liveness probe, and every
\* get_llm() returns the same handle.
C17_InitializedOnce ==
    [][(inst_llm # NoneObj /\ inst_llm.sondeado /\ ultimo'.op # "cambiar_modo")
       => /\ n_clientes' = n_clientes
          /\ n_sondas' = n_sondas
          /\ inst_llm' = inst_llm
          /\ ultimo'.op = "get_llm" => (ultimo'.error = None /\ ultimo'.llm = inst_llm)]_vars

\* get_llm() returned the handle that an earlier operation had built and
\* probed: the only client, the only probe.
C17_Witness ==
    /\ inst_llm # NoneObj
    /\ inst_llm.sondeado
    /\ ultimo.op = "get_llm"
    /\ ultimo.clientes = 0
    /\ ultimo.sondas = 0
    /\ ultimo.llm = inst_llm
    /\ n_clientes = 1
    /\ n_sondas = 1

\* C18 (as claimed): once the provider has been initialized, the active
\* backend selection never changes, whatever public operation is called.
C18_SelectionNeverChanges ==
    [][cls_instance => LLM_MODE' = LLM_MODE]_vars

\* C18 (amended): the active backend selection changes only through
\* cambiar_modo(m) with m 'api' or 'local', which makes m the selection; no
\* other public operation of the provider changes it, and 'none' cannot be
\* selected after import.
C18_SelectionChangesOnlyByCambiarModo ==
    [][LLM_MODE' # LLM_MODE
       => /\ ultimo'.op = "cambiar_modo"
          /\ ultimo'.arg = LLM_MODE'
          /\ LLM_MODE' \in {"api", "local"}]_vars

\* cambiar_modo changed the selection of an initialized provider and the new
\* backend was built and probed.
C18_Witness ==
    /\ ultimo.op = "cambiar_modo"
    /\ ultimo.modo_antes # LLM_MODE
    /\ ultimo.error = None
    /\ inst_llm # NoneObj
    /\ inst_llm.sondeado
    /\ inst_llm.id >= 2

\* C19: every change of mode through cambiar_modo discards the shared handle
\* and re-initializes: the handle of the provider, and so the handle that
\* LLMProvider().get_llm() returns, was built for the current
\* ConfigLLM.LLM_MODE, and after cambiar_modo(m) returns normally the handle
\* is a new one built for m.
C19_HandleMatchesMode ==
    /\ inst_llm # NoneObj => inst_llm.modo = LLM_MODE
    /\ (ultimo.op = "get_llm" /\ ultimo.error = None) =>
          /\ ultimo.llm = inst_llm
          /\ ultimo.llm.modo = LLM_MODE
    /\ (ultimo.op = "cambiar_modo" /\ ultimo.error = None) =>
          /\ LLM_MODE = ultimo.arg
          /\ inst_llm # NoneObj
          /\ inst_llm.modo = ultimo.arg
          /\ inst_llm.id = n_clientes
          /\ ultimo.clientes = 1

\* cambiar_modo('local') on a provider in mode 'api' returned normally with a
\* second client, built for 'local'.
C19_Witness ==
    /\ ultimo.op = "cambiar_modo"
    /\ ultimo.modo_antes = "api"
    /\ ultimo.arg = "local"
    /\ ultimo.error = None
    /\ inst_llm # NoneObj
    /\ inst_llm.modo = "local"
    /\ inst_llm.id = 2
    /\ n_sondas = 2

\* C33 (as claimed): a backend handle whose liveness probe failed is never
\* handed out: the handle that get_llm returns, or that a chain constructor
\* builds its chain around, or that the topic-labelling caller invokes, has
\* passed its probe.
C33_UnprobedHandleNeverHandedOut ==
    (ultimo.op \in UsosDelBackend \cup {"etiquetar_topicos"} /\ ultimo.llm # NoneObj)
        => ultimo.llm.sondeado

\* C36: cambiar_modo called with a mode other than 'api' or 'local' ('none'
\* included) raises ValueError and leaves ConfigLLM.LLM_MODE, the singleton
\* instance and the shared handle as they were; it builds no client and sends
\* no probe.
C36_InvalidModeChangesNothing ==
    [][(ultimo'.op = "cambiar_modo" /\ ultimo'.arg \notin {"api", "local"})
       => /\ ultimo'.error = "ValueError"
          /\ ultimo'.res = "raise"
          /\ LLM_MODE' = LLM_MODE
          /\ cls_instance' = cls_instance
          /\ inst_llm' = inst_llm
          /\ n_clientes' = n_clientes
          /\ n_sondas' = n_sondas
          /\ ultimo'.clientes = 0
          /\ ultimo'.sondas = 0
          /\ ~ultimo'.invoco]_vars

\* cambiar_modo('none') was refused on a provider that holds a probed handle
\* for mode 'api'.
C36_Witness ==
    /\ ultimo.op = "cambiar_modo"
    /\ ultimo.arg = "none"
    /\ ultimo.error = "ValueError"
    /\ LLM_MODE = "api"
    /\ cls_instance
    /\ inst_llm # NoneObj
    /\ inst_llm.sondeado
    /\ n_clientes = 1
    /\ n_sondas = 1

\* C37 (as claimed): cambiar_modo is all-or-nothing: when the
\* re-initialization for the new mode fails, ConfigLLM.LLM_MODE is the
\* previous mode and the provider holds the handle it held before the call.
C37_CambiarModoAllOrNothing ==
    [][(ultimo'.op = "cambiar_modo" /\ ultimo'.error # None)
       => /\ LLM_MODE' = LLM_MODE
          /\ inst_llm' = inst_llm]_vars

\* C35 (as claimed): after cambiar_modo(m) has returned, every backend call
\* made by this layer goes to the backend of mode m, the calls of a
\* RobustStructuredChain built before the change included.
C35_CallsFollowModeChange ==
    [][(/\ ultimo.op = "cambiar_modo"
        /\ ultimo.error = None
        /\ ultimo'.op = "chain_invoke")
       => ultimo'.llm.modo = ultimo.arg]_vars

-----------------------------------------------------------------------------
(* llm_utils.py: extraer_json_de_respuesta *)

\* A text is a sequence of characters; "FENCE" (the code fence ```) and the
\* words "json", "JSON", "label", "True", "False", "None", "true", "false", "null"
\* stand as one character each, "NL" is the newline, "BOM" the byte order
\* mark, "x" and "n" are letters.

\* Longest prose before and after the object; longest string value, in units.
MaxProsa == 2
MaxValor == 3

\* What extraer_json_de_respuesta returns for None: no text it returns is empty.
SinJson == <<>>

\* The characters of prose: no braces, no brackets.
ProsaChars == {"x", " ", "FENCE", "json"}

\* The units of a string value: a character, an escaped quote.
Unidades == {<<"x">>, <<"}">>, <<"]">>, <<"[">>, <<"\\", "\"">>, <<"FENCE">>}

\* The sequences over S of length at most n.
SeqHasta(S, n) == UNION {[1..k -> S] : k \in 0..n}

\* The string values of at most n units.
RECURSIVE ValoresHasta(_)
ValoresHasta(n) ==
    IF n = 0 THEN {<<>>}
    ELSE LET V == ValoresHasta(n - 1) IN V \cup {u \o v : u \in Unidades, v \in V}

\* The object {"x":"<valor>"}.
Objeto(valor) == <<"{", "\"", "x", "\"", ":", "\"">> \o valor \o <<"\"", "}">>

\* The responses of the model: a JSON object whose string value contains a
\* closing brace or bracket, between two stretches of prose.
Prosas == SeqHasta(ProsaChars, MaxProsa)
Objetos == {Objeto(v) : v \in {w \in ValoresHasta(MaxValor) :
                                   \E i \in 1..Len(w) : w[i] \in {"}", "]"}}}

\* Whitespace (str.strip, \s): the space and the newline "NL".
Blancos == {" ", "NL"}

\* str.strip()
RECURSIVE LStrip(_)
LStrip(s) == IF s # <<>> /\ s[1] \in Blancos THEN LStrip(Tail(s)) ELSE s

RECURSIVE RStrip(_)
RStrip(s) ==
    IF s # <<>> /\ s[Len(s)] \in Blancos THEN RStrip(SubSeq(s, 1, Len(s) - 1)) ELSE s

Strip(s) == RStrip(LStrip(s))

\* The least member of a non-empty set of numbers.
Minimo(I) == CHOOSE i \in I : \A j \in I : i <= j

\* str.find(c) from position desde on: the position, 0 for -1.
Find(s, c, desde) ==
    LET I == {i \in desde..Len(s) : s[i] = c} IN IF I = {} THEN 0 ELSE Minimo(I)

\* Faulty variant of EtiquetasJson: the search is case-sensitive.
EtiquetasJsonMinusculas == {"json"}

\* The tag json as re.IGNORECASE finds it.
EtiquetasJson == {"json", "JSON"}

\* re.search of ```json\s*([\s\S]*?)\s*``` (conJson) or ```\s*([\s\S]*?)\s*```
\* in s: match.group(1).strip() of the leftmost match, whose group ends at the
\* next fence; the empty text when nothing matches.
BloqueMarkdown(s, conJson) ==
    LET k == IF conJson THEN 2 ELSE 1
        Abre(i) == /\ s[i] = "FENCE"
                   /\ conJson => (i + 1 <= Len(s) /\ s[i + 1] \in EtiquetasJson)
        I == {i \in 1..Len(s) : Abre(i) /\ Find(s, "FENCE", i + k) # 0}
    IN IF I = {} THEN <<>>
       ELSE LET i == Minimo(I) IN Strip(SubSeq(s, i + k, Find(s, "FENCE", i + k) - 1))

\* json_str.startswith('{') or json_str.startswith('[')
EmpiezaJson(s) == s # <<>> /\ s[1] \in {"{", "["}

\* The loop that looks for the closing character from position i on: the
\* position of the closing character (fin - 1), 0 when the loop ends without.
RECURSIVE Cierre(_, _, _, _, _, _, _)
Cierre(s, i, nivel, en_string, escape, char_inicio, char_fin) ==
    IF i > Len(s) THEN 0
    ELSE IF escape THEN Cierre(s, i + 1, nivel, en_string, FALSE, char_inicio, char_fin)
    ELSE IF s[i] = "\\" THEN Cierre(s, i + 1, nivel, en_string, TRUE, char_inicio, char_fin)
    ELSE IF s[i] = "\"" THEN Cierre(s, i + 1, nivel, ~en_string, FALSE, char_inicio, char_fin)
    ELSE IF ~en_string /\ s[i] = char_inicio
         THEN Cierre(s, i + 1, nivel + 1, en_string, FALSE, char_inicio, char_fin)
    ELSE IF ~en_string /\ s[i] = char_fin
         THEN IF nivel - 1 = 0 THEN i
              ELSE Cierre(s, i + 1, nivel - 1, en_string, FALSE, char_inicio, char_fin)
    ELSE Cierre(s, i + 1, nivel, en_string, FALSE, char_inicio, char_fin)

\* Strategy 2: from the first { or [ to its matching close.
JsonDirecto(s) ==
    LET inicio_obj == Find(s, "{", 1)
        inicio_arr == Find(s, "[", 1)
    IN IF inicio_obj = 0 /\ inicio_arr = 0 THEN SinJson
       ELSE LET esObj == inicio_arr = 0 \/ (inicio_obj # 0 /\ inicio_obj < inicio_arr)
                inicio == IF esObj THEN inicio_obj ELSE inicio_arr
                fin == Cierre(s, inicio, 0, FALSE, FALSE,
                              IF esObj THEN "{" ELSE "[", IF esObj THEN "}" ELSE "]")
            IN IF fin >= inicio THEN SubSeq(s, inicio, fin) ELSE SinJson

\* extraer_json_de_respuesta(texto)
extraer_json_de_respuesta(t) ==
    IF t = <<>> \/ Strip(t) = <<>> THEN SinJson
    ELSE LET s == Strip(t)
             conJson == BloqueMarkdown(s, TRUE)
             sinJson == BloqueMarkdown(s, FALSE)
         IN IF EmpiezaJson(conJson) THEN conJson
            ELSE IF EmpiezaJson(sinJson) THEN sinJson
            ELSE JsonDirecto(s)

\* A response is at hand; extraer_json_de_respuesta has not been called.
InitTexto ==
    /\ InvokeEnReposo
    /\ PuenteEnReposo
    /\ HilosEnReposo
    /\ ReintentosEnReposo
    /\ ResumenEnReposo
    /\ CandidatoEnReposo
    /\ DelayEnReposo
    /\ ProveedorEnReposo
    /\ prosa_antes \in Prosas
    /\ objeto \in Objetos
    /\ prosa_despues \in Prosas
    /\ respuesta = prosa_antes \o objeto \o prosa_despues
    /\ json_str = SinJson
    /\ extraido = FALSE

\* extraer_json_de_respuesta(respuesta)
ExtraerJsonDeRespuesta ==
    /\ ~extraido
    /\ json_str' = extraer_json_de_respuesta(respuesta)
    /\ extraido' = TRUE
    /\ UNCHANGED <<prosa_antes, objeto, prosa_despues, respuesta>>
    /\ UNCHANGED varsFueraDeTexto

NextTexto == ExtraerJsonDeRespuesta

SpecTexto == InitTexto /\ [][NextTexto]_vars

\* C20 (as claimed): for a response that is a JSON object whose string values
\* contain closing braces or brackets, possibly between prose without
\* brackets, extraer_json_de_respuesta returns the whole object up to its
\* structurally matching closing brace; neither an embedded brace nor an
\* escaped quote cuts it short.
C20_WholeObjectExtracted ==
    extraido => json_str = objeto

-----------------------------------------------------------------------------
(* llm_utils.py: con_reintentos *)

\* The greatest config.max_retries explored.
MaxReintentos == 2

\* What a call of the wrapped function can do: return a value or raise.
Retornos == {"r1", "r2"}
Excepciones == {"ValueError", "ConnectionError", "KeyError"}

\* The values of excepciones_reintentables explored; the first is the
\* default (Exception,), which catches them all.
Reintentables == {Excepciones, {"ValueError", "ConnectionError"}, {"ValueError"}}

\* for intento in range(config.max_retries + 1)
EnRangoReintentos(i, mr) == i < mr + 1

\* Faulty variant of DebeAvisar: on_retry is called after the last failure too.
DebeAvisarSiempre(i, mr) == TRUE

\* if intento < config.max_retries: a retry follows this failure.
DebeAvisar(i, mr) == i < mr

InitReintentos ==
    /\ InvokeEnReposo
    /\ PuenteEnReposo
    /\ HilosEnReposo
    /\ DelayEnReposo
    /\ ProveedorEnReposo
    /\ TextoEnReposo
    /\ ReintentosEnReposo
    /\ ResumenEnReposo
    /\ CandidatoEnReposo

\* con_reintentos(config, excepciones_reintentables, on_retry)(func) is
\* called: wrapper up to the loop.
Wrapper(mr, reintentables, on_retry) ==
    /\ cr_pc = "reposo"
    /\ cr_pc' = "bucle"
    /\ cr_max_retries' = mr
    /\ cr_reintentables' = reintentables
    /\ cr_on_retry' = on_retry
    /\ cr_intento' = 0
    /\ cr_ultimo_error' = None
    /\ cr_llamadas' = <<>>
    /\ cr_avisos' = <<>>
    /\ cr_resultado' = SinResultado
    /\ UNCHANGED varsFueraDeReintentos

\* One iteration of the loop of wrapper: func is called and ends as out.
Func(out) ==
    /\ cr_pc = "bucle"
    /\ EnRangoReintentos(cr_intento, cr_max_retries)
    /\ cr_llamadas' = Append(cr_llamadas, out)
    /\ IF out \in Retornos
       THEN /\ cr_pc' = "fin"
            /\ cr_resultado' = [tipo |-> "valor", valor |-> out]
            /\ UNCHANGED <<cr_intento, cr_ultimo_error, cr_avisos>>
       ELSE IF out \in cr_reintentables
       THEN /\ cr_ultimo_error' = out
            /\ cr_avisos' = IF DebeAvisar(cr_intento, cr_max_retries) /\ cr_on_retry
                            THEN Append(cr_avisos, cr_intento + 1)
                            ELSE cr_avisos
            /\ cr_intento' = cr_intento + 1
            /\ UNCHANGED <<cr_pc, cr_resultado>>
       ELSE /\ cr_pc' = "fin"
            /\ cr_resultado' = [tipo |-> "excepcion", error |-> out]
            /\ UNCHANGED <<cr_intento, cr_ultimo_error, cr_avisos>>
    /\ UNCHANGED <<cr_max_retries, cr_reintentables, cr_on_retry>>
    /\ UNCHANGED varsFueraDeReintentos

\* The loop of wrapper is over: raise LLMRetryExhaustedError from ultimo_error.
ReintentosAgotados ==
    /\ cr_pc = "bucle"
    /\ ~EnRangoReintentos(cr_intento, cr_max_retries)
    /\ cr_pc' = "fin"
    /\ cr_resultado' = [tipo |-> "LLMRetryExhaustedError", ultimo_error |-> cr_ultimo_error]
    /\ UNCHANGED <<cr_max_retries, cr_reintentables, cr_on_retry, cr_intento,
                   cr_ultimo_error, cr_llamadas, cr_avisos>>
    /\ UNCHANGED varsFueraDeReintentos

\* wrapper has returned or raised; the wrapped function may be called again.
WrapperVuelve ==
    /\ cr_pc = "fin"
    /\ cr_pc' = "reposo"
    /\ cr_max_retries' = 0
    /\ cr_reintentables' = {}
    /\ cr_on_retry' = FALSE
    /\ cr_intento' = 0
    /\ cr_ultimo_error' = None
    /\ cr_llamadas' = <<>>
    /\ cr_avisos' = <<>>
    /\ cr_resultado' = SinResultado
    /\ UNCHANGED varsFueraDeReintentos

NextReintentos ==
    \/ \E mr \in 0..MaxReintentos, reintentables \in Reintentables, on_retry \in BOOLEAN :
          Wrapper(mr, reintentables, on_retry)
    \/ \E out \in Retornos \cup Excepciones : Func(out)
    \/ ReintentosAgotados
    \/ WrapperVuelve

SpecReintentos == InitReintentos /\ [][NextReintentos]_vars

\* Every call of func so far raised an exception that is retried.
TodasReintentables ==
    \A k \in 1..Len(cr_llamadas) : cr_llamadas[k] \in cr_reintentables

\* C29: a function wrapped with con_reintentos is called at most
\* max_retries + 1 times per wrapper call; the first call that returns ends
\* the wrapper with that value; an exception that is not retryable
\* propagates at once; when every call raises a retryable exception the
\* wrapper raises LLMRetryExhaustedError after max_retries + 1 calls and
\* on_retry has been called with the attempt numbers 1..max_retries, never
\* for the last failure.
C29_WrapperContract ==
    /\ Len(cr_llamadas) <= cr_max_retries + 1
    /\ \A k \in 1..Len(cr_llamadas) :
          cr_llamadas[k] \in Retornos =>
              /\ k = Len(cr_llamadas)
              /\ cr_pc = "fin"
              /\ cr_resultado = [tipo |-> "valor", valor |-> cr_llamadas[k]]
    /\ \A k \in 1..Len(cr_llamadas) :
          cr_llamadas[k] \in Excepciones \ cr_reintentables =>
              /\ k = Len(cr_llamadas)
              /\ cr_pc = "fin"
              /\ cr_resultado = [tipo |-> "excepcion", error |-> cr_llamadas[k]]
    /\ (cr_pc = "fin" /\ TodasReintentables) =>
              /\ cr_resultado.tipo = "LLMRetryExhaustedError"
              /\ Len(cr_llamadas) = cr_max_retries + 1
              /\ cr_resultado.ultimo_error = cr_llamadas[Len(cr_llamadas)]
              /\ cr_on_retry => cr_avisos = [i \in 1..cr_max_retries |-> i]
              /\ ~cr_on_retry => cr_avisos = <<>>

\* Three calls fail with retryable exceptions under max_retries = 2: the
\* wrapper raises the exhausted error and on_retry saw attempts 1 and 2.
C29_Witness ==
    /\ cr_pc = "fin"
    /\ cr_resultado.tipo = "LLMRetryExhaustedError"
    /\ cr_on_retry
    /\ cr_max_retries = MaxReintentos
    /\ Len(cr_llamadas) = MaxReintentos + 1
    /\ Len(cr_avisos) = MaxReintentos

-----------------------------------------------------------------------------
(* fase_07_resumen_inteligente.py, fase_08_insights_estrategicos.py:
   _invocar_llm_con_retry *)

\* The greatest max_retries given to the helper.
MaxRetriesResumen == 2

\* What chain.invoke can return, as characters: '', ' ', 'x' and ' x '.
Respuestas == {[texto |-> r] : r \in {<<>>, <<" ">>, <<"x">>, <<" ", "x", " ">>}}

\* How an attempt can end: crear_chain raises because no LLM is configured,
\* chain.invoke returns a text, or chain.invoke raises.
SinLlmParaChain == [error |-> "RuntimeError"]
FinesDeIntento == {SinLlmParaChain, ErrorRed, ErrorCuota} \cup Respuestas

\* Faulty variant of RespuestaUtil: a whitespace-only response is returned.
RespuestaUtilSinStrip(r) == r # <<>>

\* if resultado and str(resultado).strip()
RespuestaUtil(r) == r # <<>> /\ Strip(r) # <<>>

\* The exception that an attempt ending as out raises inside the try, None
\* when it returns.
ExcepcionDeIntento(out) ==
    IF out \in Respuestas
    THEN IF RespuestaUtil(out.texto) THEN None ELSE "ValueError_vacia"
    ELSE out.error

InitResumen ==
    /\ InvokeEnReposo
    /\ PuenteEnReposo
    /\ HilosEnReposo
    /\ DelayEnReposo
    /\ ProveedorEnReposo
    /\ TextoEnReposo
    /\ ReintentosEnReposo
    /\ ResumenEnReposo
    /\ CandidatoEnReposo

\* _invocar_llm_con_retry(template, input_data, max_retries): up to the loop.
InvocarLlmConRetry(fase, mr) ==
    /\ ir_pc = "reposo"
    /\ ir_pc' = "bucle"
    /\ ir_fase' = fase
    /\ ir_max_retries' = mr
    /\ ir_intento' = 0
    /\ ir_ultimo_error' = None
    /\ ir_historial' = <<>>
    /\ ir_invocaciones' = 0
    /\ ir_resultado' = SinResultado
    /\ UNCHANGED varsFueraDeResumen

\* One iteration of the loop: crear_chain, chain.invoke and the handler.
IntentoResumen(out) ==
    /\ ir_pc = "bucle"
    /\ ir_intento < ir_max_retries + 1
    /\ ir_historial' = Append(ir_historial, out)
    /\ ir_invocaciones' = IF out = SinLlmParaChain THEN ir_invocaciones
                          ELSE ir_invocaciones + 1
    /\ LET e == ExcepcionDeIntento(out)
       IN IF e = None
          THEN /\ ir_pc' = "fin"
               /\ ir_resultado' = [tipo |-> "valor", valor |-> out.texto]
               /\ UNCHANGED <<ir_intento, ir_ultimo_error>>
          ELSE IF is_openai_quota_error(e)
          THEN /\ ir_pc' = "fin"
               /\ ir_resultado' = [tipo |-> "RuntimeError", causa |-> e]
               /\ UNCHANGED <<ir_intento, ir_ultimo_error>>
          ELSE /\ ir_ultimo_error' = e
               /\ ir_intento' = ir_intento + 1
               /\ UNCHANGED <<ir_pc, ir_resultado>>
    /\ UNCHANGED <<ir_fase, ir_max_retries>>
    /\ UNCHANGED varsFueraDeResumen

\* The loop is over: log the last error and return ''.
ResumenAgotado ==
    /\ ir_pc = "bucle"
    /\ ~(ir_intento < ir_max_retries + 1)
    /\ ir_pc' = "fin"
    /\ ir_resultado' = [tipo |-> "valor", valor |-> <<>>]
    /\ UNCHANGED <<ir_fase, ir_max_retries, ir_intento, ir_ultimo_error,
                   ir_historial, ir_invocaciones>>
    /\ UNCHANGED varsFueraDeResumen

\* The helper has returned or raised; its caller may call it again.
ResumenVuelve ==
    /\ ir_pc = "fin"
    /\ ir_pc' = "reposo"
    /\ ir_fase' = "fase_07"
    /\ ir_max_retries' = 0
    /\ ir_intento' = 0
    /\ ir_ultimo_error' = None
    /\ ir_historial' = <<>>
    /\ ir_invocaciones' = 0
    /\ ir_resultado' = SinResultado
    /\ UNCHANGED varsFueraDeResumen

NextResumen ==
    \/ \E fase \in {"fase_07", "fase_08"}, mr \in 0..MaxRetriesResumen :
          InvocarLlmConRetry(fase, mr)
    \/ \E out \in FinesDeIntento : IntentoResumen(out)
    \/ ResumenAgotado
    \/ ResumenVuelve

SpecResumen == InitResumen /\ [][NextResumen]_vars

\* The text has a character that is not whitespace.
NoSoloBlancos(r) == \E k \in 1..Len(r) : r[k] # " "

\* An attempt that ended with a response worth returning.
IntentoUtil(k) == ir_historial[k] \in Respuestas /\ NoSoloBlancos(ir_historial[k].texto)

\* An attempt that failed transiently or returned an empty response.
IntentoFallido(k) ==
    \/ ir_historial[k] \in Respuestas /\ ~NoSoloBlancos(ir_historial[k].texto)
    \/ ir_historial[k] \in {SinLlmParaChain, ErrorRed}

\* C30: _invocar_llm_con_retry invokes the chain at most max_retries + 1
\* times; it returns the first response that is not empty or whitespace
\* without a further call; when every attempt fails transiently or returns
\* an empty response it returns the empty string and raises nothing; a quota
\* error makes it raise RuntimeError at once, without a further attempt.
C30_SummaryRetryHelper ==
    /\ ir_invocaciones <= ir_max_retries + 1
    /\ Len(ir_historial) <= ir_max_retries + 1
    /\ \A k \in 1..Len(ir_historial) :
          IntentoUtil(k) =>
              /\ k = Len(ir_historial)
              /\ ir_pc = "fin"
              /\ ir_resultado = [tipo |-> "valor", valor |-> ir_historial[k].texto]
    /\ \A k \in 1..Len(ir_historial) :
          ir_historial[k] = ErrorCuota =>
              /\ k = Len(ir_historial)
              /\ ir_pc = "fin"
              /\ ir_resultado.tipo = "RuntimeError"
    /\ (ir_pc = "fin" /\ \A k \in 1..Len(ir_historial) : IntentoFallido(k)) =>
              /\ ir_resultado = [tipo |-> "valor", valor |-> <<>>]
              /\ Len(ir_historial) = ir_max_retries + 1

\* A whitespace-only response, then a response with text: the helper returns
\* the second after two invocations although more retries were left.
C30_Witness ==
    /\ ir_pc = "fin"
    /\ ir_max_retries = MaxRetriesResumen
    /\ ir_historial = <<[texto |-> <<" ">>], [texto |-> <<" ", "x", " ">>]>>
    /\ ir_invocaciones = 2
    /\ ir_resultado = [tipo |-> "valor", valor |-> <<" ", "x", " ">>]

-----------------------------------------------------------------------------
(* llm_utils.py: reparar_json *)

\* The characters \w matches: the letters and the words.
Palabras == {"x", "n", "label", "json", "JSON", "True", "False", "None", "true", "false",
             "null"}

\* The position of the first character from i on that is no whitespace,
\* Len(s) + 1 when there is none.
SaltaBlancos(s, i) ==
    LET I == {k \in i..Len(s) : s[k] \notin Blancos}
    IN IF I = {} THEN Len(s) + 1 ELSE Minimo(I)

\* The position of the last character of the run of \w characters that
\* starts at i.
FinDePalabra(s, i) ==
    LET I == {k \in i..Len(s) : s[k] \notin Palabras}
    IN IF I = {} THEN Len(s) ELSE Minimo(I) - 1

\* resultado.strip('\ufeff\u200b\u200c\u200d'): the marks at both ends go.
RECURSIVE QuitarBom(_)
QuitarBom(s) ==
    IF s # <<>> /\ s[1] = "BOM" THEN QuitarBom(Tail(s))
    ELSE IF s # <<>> /\ s[Len(s)] = "BOM" THEN QuitarBom(SubSeq(s, 1, Len(s) - 1))
    ELSE s

\* Faulty variant of ComillasSimples: single quotes are left alone.
SinComillasSimples(s, i) == SubSeq(s, i, Len(s))

\* re.sub(r"(?<=[{,:\[])\s*'([^']*?)'\s*(?=[},:\]])", r'"\1"', s) from
\* position i on: after one of { , : [ a single-quoted token, with the
\* whitespace around it, that one of } , : ] follows becomes double-quoted.
RECURSIVE ComillasSimples(_, _)
ComillasSimples(s, i) ==
    IF i > Len(s) THEN <<>>
    ELSE LET a == SaltaBlancos(s, i)
             b == IF a <= Len(s) /\ s[a] = "'" THEN Find(s, "'", a + 1) ELSE 0
             c == IF b # 0 THEN SaltaBlancos(s, b + 1) ELSE 0
         IN IF /\ i > 1
               /\ s[i - 1] \in {"{", ",", ":", "["}
               /\ b # 0
               /\ c <= Len(s)
               /\ s[c] \in {"}", ",", ":", "]"}
            THEN <<"\"">> \o SubSeq(s, a + 1, b - 1) \o <<"\"">> \o ComillasSimples(s, c)
            ELSE <<s[i]>> \o ComillasSimples(s, i + 1)

\* re.sub(r',\s*([}\]])', r'\1', s) from position i on: a comma, with the
\* whitespace after it, before } or ] goes.
RECURSIVE ComasFinales(_, _)
ComasFinales(s, i) ==
    IF i > Len(s) THEN <<>>
    ELSE LET c == SaltaBlancos(s, i + 1)
         IN IF s[i] = "," /\ c <= Len(s) /\ s[c] \in {"}", "]"}
            THEN <<s[c]>> \o ComasFinales(s, c + 1)
            ELSE <<s[i]>> \o ComasFinales(s, i + 1)

\* re.sub(r'([{,])\s*(\w+)\s*:', r'\1"\2":', s) from position i on: a word
\* between { or , and a colon is quoted, the whitespace around it goes.
RECURSIVE ClavesSinComillas(_, _)
ClavesSinComillas(s, i) ==
    IF i > Len(s) THEN <<>>
    ELSE LET a == SaltaBlancos(s, i + 1)
             b == IF a <= Len(s) /\ s[a] \in Palabras THEN FinDePalabra(s, a) ELSE 0
             c == IF b # 0 THEN SaltaBlancos(s, b + 1) ELSE 0
         IN IF /\ s[i] \in {"{", ","}
               /\ b # 0
               /\ c <= Len(s)
               /\ s[c] = ":"
            THEN <<s[i], "\"">> \o SubSeq(s, a, b) \o <<"\"", ":">>
                     \o ClavesSinComillas(s, c + 1)
            ELSE <<s[i]>> \o ClavesSinComillas(s, i + 1)

\* re.sub(r'\bTrue\b', 'true', s), and the same for False and None: the
\* word on its own, no letter before or after it.
LiteralesDePython(s) ==
    LET Sola(i) == /\ (i = 1 \/ s[i - 1] \notin Palabras)
                   /\ (i = Len(s) \/ s[i + 1] \notin Palabras)
    IN [i \in 1..Len(s) |->
           IF s[i] = "True" /\ Sola(i) THEN "true"
           ELSE IF s[i] = "False" /\ Sola(i) THEN "false"
           ELSE IF s[i] = "None" /\ Sola(i) THEN "null"
           ELSE s[i]]

\* The number of double quotes from position i on.
Comillas(s, i) == Cardinality({k \in i..Len(s) : s[k] = "\""})

\* re.sub(r'(?<!\\)\n(?=[^"]*"(?:[^"]*"[^"]*")*[^"]*$)', r'\\n', s) from
\* position i on: a newline that no backslash precedes and an odd number of
\* double quotes follows becomes the two characters \ and n.
RECURSIVE SaltosEnStrings(_, _)
SaltosEnStrings(s, i) ==
    IF i > Len(s) THEN <<>>
    ELSE IF /\ s[i] = "NL"
            /\ (i = 1 \/ s[i - 1] # "\\")
            /\ Comillas(s, i + 1) % 2 = 1
         THEN <<"\\", "n">> \o SaltosEnStrings(s, i + 1)
         ELSE <<s[i]>> \o SaltosEnStrings(s, i + 1)

\* reparar_json(json_str)
reparar_json(t) ==
    IF t = <<>> THEN t
    ELSE LET sin_bom == QuitarBom(t)
             comillas == ComillasSimples(sin_bom, 1)
             comas == ComasFinales(comillas, 1)
             claves == ClavesSinComillas(comas, 1)
             literales == LiteralesDePython(claves)
         IN SaltosEnStrings(literales, 1)

-----------------------------------------------------------------------------
(* json.loads, as parsear_json_seguro calls it *)

\* The values json.loads returns: a str of characters, one of the literals,
\* a dict as the set of its <<key, value>> pairs, a list of values.
Str(chars) == [t |-> "str", s |-> chars, m |-> {}, a |-> <<>>]
Lit(palabra) == [t |-> "lit", s |-> <<palabra>>, m |-> {}, a |-> <<>>]
Dict(pares) ==
    [t |-> "dict", s |-> <<>>, a |-> <<>>,
     m |-> {pares[i] : i \in {k \in 1..Len(pares) :
                                 \A j \in (k + 1)..Len(pares) : pares[j][1] # pares[k][1]}}]
List(valores) == [t |-> "list", s |-> <<>>, m |-> {}, a |-> valores]

\* json.JSONDecodeError, and a text that leaves the characters of the model
\* (an escape \t, \f or \n spelled with the first letter of a word).
JSONDecodeError == [t |-> "JSONDecodeError", s |-> <<>>, m |-> {}, a |-> <<>>]
FueraDelAlfabeto == [t |-> "fuera", s |-> <<>>, m |-> {}, a |-> <<>>]

\* What a parsing step gives: the value and the position after it, or the
\* failure.
Leido(v, sig) == [ok |-> TRUE, v |-> v, sig |-> sig]
Falla(v) == [ok |-> FALSE, v |-> v, sig |-> 0]

\* A string from position i on, the opening quote read, chars decoded so far.
RECURSIVE ParseString(_, _, _)
ParseString(s, i, chars) ==
    IF i > Len(s) THEN Falla(JSONDecodeError)
    ELSE IF s[i] = "\"" THEN Leido(Str(chars), i + 1)
    ELSE IF s[i] = "NL" THEN Falla(JSONDecodeError)
    ELSE IF s[i] = "\\"
         THEN IF i + 1 > Len(s) THEN Falla(JSONDecodeError)
              ELSE IF s[i + 1] \in {"\"", "\\"}
                   THEN ParseString(s, i + 2, Append(chars, s[i + 1]))
              ELSE IF s[i + 1] = "n" THEN ParseString(s, i + 2, Append(chars, "NL"))
              ELSE IF s[i + 1] \in {"true", "false", "null"} THEN Falla(FueraDelAlfabeto)
              ELSE Falla(JSONDecodeError)
    ELSE ParseString(s, i + 1, Append(chars, s[i]))

\* A value from position i on; whitespace may precede it.
RECURSIVE ParseValor(_, _)
RECURSIVE ParseMiembros(_, _, _)
RECURSIVE ParseElementos(_, _, _)

ParseValor(s, i) ==
    LET j == SaltaBlancos(s, i)
    IN IF j > Len(s) THEN Falla(JSONDecodeError)
       ELSE IF s[j] = "\"" THEN ParseString(s, j + 1, <<>>)
       ELSE IF s[j] \in {"true", "false", "null"} THEN Leido(Lit(s[j]), j + 1)
       ELSE IF s[j] = "{"
            THEN LET k == SaltaBlancos(s, j + 1)
                 IN IF k <= Len(s) /\ s[k] = "}" THEN Leido(Dict(<<>>), k + 1)
                    ELSE ParseMiembros(s, k, <<>>)
       ELSE IF s[j] = "["
            THEN LET k == SaltaBlancos(s, j + 1)
                 IN IF k <= Len(s) /\ s[k] = "]" THEN Leido(List(<<>>), k + 1)
                    ELSE ParseElementos(s, k, <<>>)
       ELSE Falla(JSONDecodeError)

\* The members of an object from position k on, where a key must start.
ParseMiembros(s, k, pares) ==
    IF k > Len(s) \/ s[k] # "\"" THEN Falla(JSONDecodeError)
    ELSE LET clave == ParseString(s, k + 1, <<>>)
         IN IF ~clave.ok THEN clave
            ELSE LET c == SaltaBlancos(s, clave.sig)
                 IN IF c > Len(s) \/ s[c] # ":" THEN Falla(JSONDecodeError)
                    ELSE LET valor == ParseValor(s, c + 1)
                         IN IF ~valor.ok THEN valor
                            ELSE LET d == SaltaBlancos(s, valor.sig)
                                     mas == Append(pares, <<clave.v.s, valor.v>>)
                                 IN IF d > Len(s) THEN Falla(JSONDecodeError)
                                    ELSE IF s[d] = "}" THEN Leido(Dict(mas), d + 1)
                                    ELSE IF s[d] = ","
                                         THEN ParseMiembros(s, SaltaBlancos(s, d + 1), mas)
                                    ELSE Falla(JSONDecodeError)

\* The elements of an array from position k on, where a value must start.
ParseElementos(s, k, valores) ==
    LET valor == ParseValor(s, k)
    IN IF ~valor.ok THEN valor
       ELSE LET d == SaltaBlancos(s, valor.sig)
                mas == Append(valores, valor.v)
            IN IF d > Len(s) THEN Falla(JSONDecodeError)
               ELSE IF s[d] = "]" THEN Leido(List(mas), d + 1)
               ELSE IF s[d] = "," THEN ParseElementos(s, d + 1, mas)
               ELSE Falla(JSONDecodeError)

\* json.loads(s): the value, or JSONDecodeError.
json_loads(s) ==
    IF s # <<>> /\ s[1] = "BOM" THEN JSONDecodeError
    ELSE LET valor == ParseValor(s, 1)
         IN IF ~valor.ok THEN valor.v
            ELSE IF SaltaBlancos(s, valor.sig) <= Len(s) THEN JSONDecodeError
            ELSE valor.v

-----------------------------------------------------------------------------
(* llm_utils.py: a response built around JSON, through
   extraer_json_de_respuesta, reparar_json and json.loads *)

\* Most blocks in a response; longest string value of the JSON, in units.
MaxBloques == 2
MaxContenido == 2

\* No value parsed yet.
SinData == [t |-> "nada", s |-> <<>>, m |-> {}, a |-> <<>>]

\* The units of the string value of a JSON text: a character, an escaped quote.
UnidadesDeValor == {<<"x">>, <<" ">>, <<",">>, <<":">>, <<"'">>, <<"}">>, <<"True">>,
                    <<"\\", "\"">>}

\* The strings of at most n units.
RECURSIVE ContenidosHasta(_)
ContenidosHasta(n) ==
    IF n = 0 THEN {<<>>}
    ELSE LET V == ContenidosHasta(n - 1)
         IN V \cup {u \o v : u \in UnidadesDeValor, v \in V}

\* The array ["<valor>"].
Arreglo(valor) == <<"[", "\"">> \o valor \o <<"\"", "]">>

\* The serializations of the JSON values of the model: {"x":"<c>"} and ["<c>"].
Serializaciones ==
    {Objeto(c) : c \in ContenidosHasta(MaxContenido)}
        \cup {Arreglo(c) : c \in ContenidosHasta(MaxContenido)}

\* Prose without brackets, and prose that may have them.
ProsasSinCorchetes == {<<>>, <<"x", " ">>, <<"x", ":", " ">>}
ProsasConCorchetes == {<<>>, <<"x", " ">>, <<"[", "x", "]", " ">>}

\* How a block is marked: fenced and tagged json or JSON, fenced without a
\* tag, or not fenced at all (the text stands in the prose).
Etiquetas == {"json", "JSON", "ninguna"}
Bloque(etiqueta, contenido) == [etiqueta |-> etiqueta, contenido |-> contenido]

\* The contents of the blocks that are built around no JSON value.
ContenidosDeBloque ==
    {<<"x">>, <<"{", "x", "}">>, <<"NL", "[", "x", "]", "NL">>, <<"{", "x", "}", " ", "x">>}

\* The characters of a block.
TextoDeBloque(b) ==
    IF b.etiqueta = "prosa" THEN b.contenido
    ELSE <<"FENCE">> \o (IF b.etiqueta = "ninguna" THEN <<>> ELSE <<b.etiqueta>>)
             \o b.contenido \o <<"FENCE">>

\* The characters of the blocks, a space between two.
RECURSIVE TextoDeBloques(_)
TextoDeBloques(bs) ==
    IF bs = <<>> THEN <<>>
    ELSE IF Len(bs) = 1 THEN TextoDeBloque(bs[1])
    ELSE TextoDeBloque(bs[1]) \o <<" ">> \o TextoDeBloques(Tail(bs))

\* The responses with up to MaxBloques fenced blocks between prose.
RespuestasDeBloques ==
    {[antes |-> a, bloques |-> bs, despues |-> d, valor |-> <<>>] :
        a \in ProsasConCorchetes,
        bs \in {b \in SeqHasta({Bloque(e, c) : e \in Etiquetas, c \in ContenidosDeBloque},
                               MaxBloques) : b # <<>>},
        d \in {<<>>, <<" ", "x">>}}

\* The responses that are the serialization of a JSON value in prose, in a
\* fenced block tagged json, or in a fenced block without a tag.
RespuestasDeValor ==
    {[antes |-> a,
      bloques |-> <<Bloque(e, IF e = "prosa" THEN v ELSE <<"NL">> \o v \o <<"NL">>)>>,
      despues |-> d, valor |-> v] :
        a \in ProsasSinCorchetes, e \in {"prosa", "json", "ninguna"},
        v \in Serializaciones, d \in {<<>>, <<" ", "x">>}}

InitCandidato ==
    /\ InvokeEnReposo
    /\ PuenteEnReposo
    /\ HilosEnReposo
    /\ DelayEnReposo
    /\ ProveedorEnReposo
    /\ TextoEnReposo
    /\ ReintentosEnReposo
    /\ ResumenEnReposo
    /\ \E r \in RespuestasDeBloques \cup RespuestasDeValor :
          /\ rc_antes = r.antes
          /\ rc_bloques = r.bloques
          /\ rc_despues = r.despues
          /\ rc_valor = r.valor
          /\ rc_respuesta = r.antes \o TextoDeBloques(r.bloques) \o r.despues
    /\ rc_json_str = SinJson
    /\ rc_reparado = <<>>
    /\ rc_otra_vez = <<>>
    /\ rc_data = SinData
    /\ rc_paso = "respuesta"

\* json_str = extraer_json_de_respuesta(texto)
Extraer ==
    /\ rc_paso = "respuesta"
    /\ rc_json_str' = extraer_json_de_respuesta(rc_respuesta)
    /\ rc_paso' = "extraido"
    /\ UNCHANGED <<rc_antes, rc_bloques, rc_despues, rc_valor, rc_respuesta,
                   rc_reparado, rc_otra_vez, rc_data>>
    /\ UNCHANGED varsFueraDeCandidato

\* json_reparado = reparar_json(json_str), for a candidate
Reparar ==
    /\ rc_paso = "extraido"
    /\ rc_json_str # SinJson
    /\ rc_reparado' = reparar_json(rc_json_str)
    /\ rc_paso' = "reparado"
    /\ UNCHANGED <<rc_antes, rc_bloques, rc_despues, rc_valor, rc_respuesta,
                   rc_json_str, rc_otra_vez, rc_data>>
    /\ UNCHANGED varsFueraDeCandidato

\* json.loads(json_reparado)
Parsear ==
    /\ rc_paso = "reparado"
    /\ rc_data' = json_loads(rc_reparado)
    /\ rc_paso' = "parseado"
    /\ UNCHANGED <<rc_antes, rc_bloques, rc_despues, rc_valor, rc_respuesta,
                   rc_json_str, rc_reparado, rc_otra_vez>>
    /\ UNCHANGED varsFueraDeCandidato

NextCandidato == Extraer \/ Reparar \/ Parsear

SpecCandidato == InitCandidato /\ [][NextCandidato]_vars

\* C21 (as claimed): when the response is the serialization of a JSON object
\* or array v in prose, in a fenced block tagged json or in a fenced block
\* without a tag, extraer_json_de_respuesta returns a candidate c, and
\* parsing reparar_json(c) gives a value equal to v.
C21_ExtractRepairParseRoundTrip ==
    rc_valor # <<>> =>
        /\ rc_paso = "extraido" => rc_json_str # SinJson
        /\ rc_paso = "parseado" => rc_data = json_loads(rc_valor)

\* The blocks of the response that are tagged json, in any letter case.
BloquesJson == {i \in 1..Len(rc_bloques) : rc_bloques[i].etiqueta \in {"json", "JSON"}}

\* The tagged blocks whose trimmed content starts with { or [.
BloquesJsonConJson == {i \in BloquesJson : EmpiezaJson(Strip(rc_bloques[i].contenido))}

\* C22 (as claimed): if the response contains a fenced block tagged json, in
\* any letter case, whose trimmed content starts with { or [,
\* extraer_json_de_respuesta returns exactly the trimmed content of such a
\* block, whatever untagged block or bracket in the prose comes before it.
C22_TaggedBlockWins ==
    (rc_paso = "extraido" /\ rc_valor = <<>> /\ BloquesJsonConJson # {}) =>
        \E i \in BloquesJsonConJson : rc_json_str = Strip(rc_bloques[i].contenido)

\* C22 (amended): if the first fenced block tagged json, in any letter case,
\* has a trimmed content that starts with { or [, extraer_json_de_respuesta
\* returns exactly that trimmed content, whatever untagged block or bracket
\* in the prose comes before it.
C22_FirstTaggedBlockWins ==
    (rc_paso = "extraido" /\ rc_valor = <<>> /\ BloquesJson # {}
        /\ Minimo(BloquesJson) \in BloquesJsonConJson) =>
        rc_json_str = Strip(rc_bloques[Minimo(BloquesJson)].contenido)

\* Prose with a bracket, an untagged block with JSON, then a block tagged
\* JSON: the content of the tagged block is returned.
C22_Witness ==
    /\ rc_paso = "extraido"
    /\ rc_antes = <<"[", "x", "]", " ">>
    /\ rc_bloques = <<Bloque("ninguna", <<"{", "x", "}">>),
                      Bloque("JSON", <<"NL", "[", "x", "]", "NL">>)>>
    /\ rc_json_str = <<"[", "x", "]">>

-----------------------------------------------------------------------------
(* llm_utils.py: reparar_json applied twice *)

\* Longest text handed to reparar_json.
MaxEntrada == 3

\* The characters of the texts handed to reparar_json.
CharsDeEntrada == {"{", "}", "[", ",", ":", "\"", "'", " ", "NL", "x", "True", "BOM"}

\* The texts handed to reparar_json: every short text, and every JSON text
\* of the model.
Entradas == SeqHasta(CharsDeEntrada, MaxEntrada) \cup Serializaciones

InitReparar ==
    /\ InvokeEnReposo
    /\ PuenteEnReposo
    /\ HilosEnReposo
    /\ DelayEnReposo
    /\ ProveedorEnReposo
    /\ TextoEnReposo
    /\ ReintentosEnReposo
    /\ ResumenEnReposo
    /\ rc_antes = <<>>
    /\ rc_bloques = <<>>
    /\ rc_despues = <<>>
    /\ rc_valor = <<>>
    /\ rc_respuesta = <<>>
    /\ rc_json_str \in Entradas
    /\ rc_reparado = <<>>
    /\ rc_otra_vez = <<>>
    /\ rc_data = SinData
    /\ rc_paso = "extraido"

\* reparar_json(json_str), for any text
RepararJson ==
    /\ rc_paso = "extraido"
    /\ rc_reparado' = reparar_json(rc_json_str)
    /\ rc_paso' = "reparado"
    /\ UNCHANGED <<rc_antes, rc_bloques, rc_despues, rc_valor, rc_respuesta,
                   rc_json_str, rc_otra_vez, rc_data>>
    /\ UNCHANGED varsFueraDeCandidato

\* reparar_json(reparar_json(json_str))
RepararOtraVez ==
    /\ rc_paso = "reparado"
    /\ rc_otra_vez' = reparar_json(rc_reparado)
    /\ rc_paso' = "otra_vez"
    /\ UNCHANGED <<rc_antes, rc_bloques, rc_despues, rc_valor, rc_respuesta,
                   rc_json_str, rc_reparado, rc_data>>
    /\ UNCHANGED varsFueraDeCandidato

NextReparar == RepararJson \/ RepararOtraVez

SpecReparar == InitReparar /\ [][NextReparar]_vars

\* C23 (as claimed): reparar_json is idempotent: for every text x,
\* reparar_json(reparar_json(x)) equals reparar_json(x).
C23_RepairIdempotent ==
    rc_paso = "otra_vez" => rc_otra_vez = rc_reparado

\* json.loads accepts the text.
JsonValido(s) == json_loads(s).t \in {"str", "lit", "dict", "list"}

\* C24 (as claimed): for every text x that is valid JSON, also an object
\* whose string value contains commas, colons, a word before a colon or the
\* word True, reparar_json(x) returns x unchanged.
C24_ValidJsonUnchanged ==
    (rc_paso = "reparado" /\ JsonValido(rc_json_str)) => rc_reparado = rc_json_str

-----------------------------------------------------------------------------
(* llm_provider.py: RobustStructuredChain.invoke on a fenced, single-quoted
   object *)

\* The response  Sure! ```json\n{'label': 'Beach Sunset'}\n```  in characters.
RespuestaCercada ==
    <<"x", " ", "FENCE", "json", "NL",
      "{", "'", "label", "'", ":", " ", "'", "x", " ", "x", "'", "}",
      "NL", "FENCE">>

\* What parsear_json_seguro and the schema {label: str} make of a response
\* in characters, in the terms of Texto: which tier reads the candidate
\* ("resto": neither json.loads does, the text is left to ast.literal_eval)
\* and whether modelo(**data) accepts the data.
Clasificar(chars) ==
    LET c == extraer_json_de_respuesta(chars)
        directo == json_loads(c)
        reparado == json_loads(reparar_json(c))
        data == IF JsonValido(c) THEN directo ELSE reparado
    IN IF chars = <<>> \/ c = SinJson THEN [candidato |-> "ninguno", datos |-> "nada"]
       ELSE IF ~JsonValido(c) /\ ~JsonValido(reparar_json(c))
            THEN [candidato |-> "resto", datos |-> "nada"]
       ELSE [candidato |-> IF JsonValido(c) THEN "json" ELSE "reparable",
             datos |-> IF data.t = "list" THEN "lista"
                       ELSE IF \E par \in data.m : par[1] = <<"label">> /\ par[2].t = "str"
                            THEN "dict_ok"
                       ELSE "dict_mal"]

-----------------------------------------------------------------------------
(* api_bridge.py: PipelineAPI, the commands run_phase, run_all, stop and
   stop_and_rollback as main's command loop hands them to execute, one at a
   time: a command is read only when the one before has been answered. *)

\* self.PHASES has the keys 1..9; _run_all loops over range(1, 10).
NumFases == 9
Fases == 1..NumFases

\* The phase numbers a run_phase command is sent with: 0, which is not a
\* phase, the first phase and the last.
FasesPedidas == {0, 1, NumFases}

\* The phases that the config of a run_all command may disable
\* (phases_config[phase_key]['enabled'] false): the first ones.
MaxDeshabilitada == 2
Deshabilitables == 1..MaxDeshabilitada

\* What the environment does to one call of _run_phase: the output
\* directories cannot be created, begin_phase raises, the phase raises,
\* the phase raises InterruptedError, commit raises, the progress report or
\* the output paths after the commit raise, the phase raises and the rollback
\* raises too, or all goes well.
EntornosDeFase == {"directorios_error", "begin_error", "procesar_error",
                   "procesar_interrumpido", "commit_error", "salida_error",
                   "rollback_error", "ok"}

\* The rollback manager's session begun last: the calls made on it since
\* begin_phase, in order.
SesionNueva == [llamadas |-> <<>>]

\* One more call on the session.
ConLlamada(ses, call) == [ses EXCEPT !.llamadas = Append(@, call)]

\* The attributes of the PipelineAPI object and the manager's session.
Estado(cp, ss, sid, ses) ==
    [current_phase |-> cp, should_stop |-> ss, current_session_id |-> sid, sesion |-> ses]

\* How a call of _run_phase ends: by return or raise, the status of the
\* response, whether a session was begun, and the state it leaves.
FinDeFase(fin, status, inicio, e) ==
    [fin |-> fin, status |-> status, inicio |-> inicio, estado |-> e]

\* finally: self.current_phase = None
FaseAlSalir(cp) == NoneInt

\* The except clauses of _run_phase and its finally clause, for exception exc
\* raised in the try block with session session_id (NoneInt: none) begun:
\* the session is rolled back and the response says 'stopped' or 'error'.
ManejarEnFase(exc, env, rm, session_id, e) ==
    LET status == IF exc = "InterruptedError" THEN "stopped" ELSE "error"
        fuera == [e EXCEPT !.current_phase = FaseAlSalir(@)]
    IN
    IF rm /\ session_id # NoneInt
    THEN IF env = "rollback_error"                   \* rollback(session_id) raises
         THEN FinDeFase("raise", "ninguno", TRUE,
                        [fuera EXCEPT !.sesion = ConLlamada(@, "rollback_error")])
         ELSE FinDeFase("return", status, TRUE,
                        [fuera EXCEPT !.sesion = ConLlamada(@, "rollback"),
                                      !.current_session_id = NoneInt])
    ELSE FinDeFase("return", status, FALSE, fuera)

\* The try block of _run_phase from the first stop check on.
IntentarFase(env, rm, session_id, e) ==
    IF e.should_stop                                 \* stopped before execution
    THEN ManejarEnFase("InterruptedError", env, rm, session_id, e)
    ELSE IF env \in {"procesar_error", "rollback_error"}
    THEN ManejarEnFase("Exception", env, rm, session_id, e)
    ELSE IF env = "procesar_interrumpido"
    THEN ManejarEnFase("InterruptedError", env, rm, session_id, e)
    ELSE IF e.should_stop                            \* stopped during execution
    THEN ManejarEnFase("InterruptedError", env, rm, session_id, e)
    ELSE LET conCommit ==                            \* if self.rollback_manager and session_id
             IF rm /\ session_id # NoneInt
             THEN IF env = "commit_error"
                  THEN [e EXCEPT !.sesion = ConLlamada(@, "commit_error")]
                  ELSE [e EXCEPT !.sesion = ConLlamada(@, "commit"),
                                 !.current_session_id = NoneInt]
             ELSE e
         IN
         IF env = "commit_error" /\ rm /\ session_id # NoneInt
         THEN ManejarEnFase("Exception", env, rm, session_id, conCommit)
         ELSE IF env = "salida_error"                \* reporter.report(100, ...), output_paths
         THEN ManejarEnFase("Exception", env, rm, session_id, conCommit)
         ELSE FinDeFase("return", "completed", rm /\ session_id # NoneInt,
                        [conCommit EXCEPT !.current_phase = FaseAlSalir(@)])

\* _run_phase({'phase': phase, ...}) in state e, with pipeline whether
\* PIPELINE_AVAILABLE and rm whether self.rollback_manager is set.
run_phase(phase, env, pipeline, rm, e) ==
    IF ~pipeline THEN FinDeFase("return", "unavailable", FALSE, e)
    ELSE IF phase \notin Fases THEN FinDeFase("return", "invalid", FALSE, e)
    ELSE LET e1 == [e EXCEPT !.current_phase = <<phase>>, !.should_stop = FALSE] IN
         IF env = "directorios_error"                \* ConfigDataset.crear_directorios() raises
         THEN FinDeFase("raise", "ninguno", FALSE, e1)
         ELSE IF rm /\ env = "begin_error"           \* begin_phase(phase) raises
         THEN FinDeFase("raise", "ninguno", FALSE, e1)
         ELSE LET session_id == IF rm THEN <<phase>> ELSE NoneInt
                  e2 == IF rm THEN [e1 EXCEPT !.sesion = SesionNueva,
                                              !.current_session_id = session_id]
                        ELSE e1
              IN IntentarFase(env, rm, session_id, e2)

\* The except clause of execute for an exception that a handler let out: the
\* session still noted in _current_session_id is rolled back.
ManejarEnExecute(rm, e) ==
    IF rm /\ e.current_session_id # NoneInt
    THEN [e EXCEPT !.sesion = ConLlamada(@, "rollback"), !.current_session_id = NoneInt]
    ELSE e

\* What `llamada` holds: the last call of _run_phase, what the environment
\* did to it, how it ended and current_phase when it was made.
Llamada(env, f, antes) ==
    [env |-> env, fin |-> f.fin, status |-> f.status, inicio |-> f.inicio,
     fase_antes |-> antes]

\* The state of the PipelineAPI object as the variables hold it.
EstadoActual == Estado(current_phase, should_stop, current_session_id, rm_sesion)

\* The variables take the state e.
Toma(e) ==
    /\ current_phase' = e.current_phase
    /\ should_stop' = e.should_stop
    /\ current_session_id' = e.current_session_id
    /\ rm_sesion' = e.sesion

\* The bridge has been started: the pipeline and the rollback manager were
\* imported or not.
InitPuente ==
    /\ InvokeEnReposo
    /\ DelayEnReposo
    /\ ProveedorEnReposo
    /\ TextoEnReposo
    /\ ReintentosEnReposo
    /\ ResumenEnReposo
    /\ CandidatoEnReposo
    /\ HilosEnReposo
    /\ PIPELINE_AVAILABLE \in BOOLEAN
    /\ rollback_manager \in BOOLEAN
    /\ current_phase = NoneInt
    /\ should_stop = FALSE
    /\ current_session_id = NoneInt
    /\ rm_sesion = NoneObj
    /\ pb_pc = "idle"
    /\ pb_phase = 0
    /\ results = <<>>
    /\ llamada = SinLlamada
    /\ respuesta_cmd = Respuesta("ninguna", "ninguna")

\* execute({'action': 'run_phase', 'phase': phase})
RunPhase(phase, env) ==
    /\ pb_pc = "idle"
    /\ LET f == run_phase(phase, env, PIPELINE_AVAILABLE, rollback_manager, EstadoActual)
           e == IF f.fin = "raise" THEN ManejarEnExecute(rollback_manager, f.estado)
                ELSE f.estado
       IN
       /\ Toma(e)
       /\ llamada' = Llamada(env, f, current_phase)
       /\ respuesta_cmd' = Respuesta("run_phase", respuesta_cmd.action)
    /\ results' = <<>>
    /\ UNCHANGED <<PIPELINE_AVAILABLE, rollback_manager, pb_pc, pb_phase>>
    /\ UNCHANGED varsFueraDePuente

\* execute({'action': 'run_all', ...}) up to the loop of _run_all.
RunAll ==
    /\ pb_pc = "idle"
    /\ pb_pc' = "run_all"
    /\ pb_phase' = 1
    /\ results' = <<>>
    /\ UNCHANGED <<PIPELINE_AVAILABLE, rollback_manager, current_phase, should_stop,
                   current_session_id, rm_sesion, llamada, respuesta_cmd>>
    /\ UNCHANGED varsFueraDePuente

\* The results that _run_all adds when it finds should_stop set at phase:
\* the phases from phase on, as stopped.
Restantes(phase) == [i \in 1..(NumFases + 1 - phase) |-> "stopped"]

\* _run_all after its loop: self.should_stop = False and the response.
FinDeRunAll(res, e) ==
    /\ Toma([e EXCEPT !.should_stop = FALSE])
    /\ results' = res
    /\ pb_pc' = "idle"
    /\ pb_phase' = 0
    /\ respuesta_cmd' = Respuesta("run_all", respuesta_cmd.action)

\* _run_all goes on with the next phase, or leaves the loop after the last.
SigueRunAll(res, e) ==
    IF pb_phase = NumFases
    THEN FinDeRunAll(res, e)
    ELSE /\ Toma(e)
         /\ results' = res
         /\ pb_phase' = pb_phase + 1
         /\ UNCHANGED <<pb_pc, respuesta_cmd>>

\* if self.should_stop: (in the loop of _run_all)
PararRunAll(stop) == stop

\* One iteration of the loop of _run_all, for a phase that the command's
\* config enables or not.
RunAllIteracion(enabled, env) ==
    /\ pb_pc = "run_all"
    /\ ~enabled => pb_phase \in Deshabilitables
    /\ IF PararRunAll(should_stop)
       THEN /\ FinDeRunAll(results \o Restantes(pb_phase), EstadoActual)
            /\ UNCHANGED llamada
       ELSE IF ~enabled
       THEN /\ SigueRunAll(Append(results, "skipped"), EstadoActual)
            /\ UNCHANGED llamada
       ELSE LET f == run_phase(pb_phase, env, PIPELINE_AVAILABLE, rollback_manager,
                               EstadoActual)
            IN
            /\ llamada' = Llamada(env, f, current_phase)
            /\ IF f.fin = "raise"                    \* out of _run_all, to execute
               THEN /\ Toma(ManejarEnExecute(rollback_manager, f.estado))
                    /\ results' = <<>>
                    /\ pb_pc' = "idle"
                    /\ pb_phase' = 0
                    /\ respuesta_cmd' = Respuesta("run_all", respuesta_cmd.action)
               ELSE IF f.status # "completed"        \* if not result['success']: break
               THEN FinDeRunAll(Append(results, f.status), f.estado)
               ELSE SigueRunAll(Append(results, f.status), f.estado)
    /\ UNCHANGED <<PIPELINE_AVAILABLE, rollback_manager>>
    /\ UNCHANGED varsFueraDePuente

\* execute({'action': 'stop'})
Stop ==
    /\ pb_pc = "idle"
    /\ should_stop' = TRUE
    /\ results' = <<>>
    /\ respuesta_cmd' = Respuesta("stop", respuesta_cmd.action)
    /\ UNCHANGED <<PIPELINE_AVAILABLE, rollback_manager, current_phase, current_session_id,
                   rm_sesion, pb_pc, pb_phase, llamada>>
    /\ UNCHANGED varsFueraDePuente

\* execute({'action': 'stop_and_rollback'})
StopAndRollback ==
    /\ pb_pc = "idle"
    /\ Toma(ManejarEnExecute(rollback_manager, [EstadoActual EXCEPT !.should_stop = TRUE]))
    /\ results' = <<>>
    /\ respuesta_cmd' = Respuesta("stop_and_rollback", respuesta_cmd.action)
    /\ UNCHANGED <<PIPELINE_AVAILABLE, rollback_manager, pb_pc, pb_phase, llamada>>
    /\ UNCHANGED varsFueraDePuente

NextPuente ==
    \/ \E phase \in FasesPedidas, env \in EntornosDeFase : RunPhase(phase, env)
    \/ RunAll
    \/ \E enabled \in BOOLEAN, env \in EntornosDeFase : RunAllIteracion(enabled, env)
    \/ Stop
    \/ StopAndRollback

SpecPuente == InitPuente /\ [][NextPuente]_vars

\* The calls on the session begun last that returned: its resolutions.
Resoluciones == SelectSeq(rm_sesion.llamadas, LAMBDA x : x \in {"commit", "rollback"})

\* The last call of _run_phase returned with one of the three statuses.
FaseTerminada == llamada.fin = "return" /\ llamada.status \in {"completed", "stopped", "error"}

\* C31 (as claimed): every return of _run_phase (completed, stopped or error)
\* leaves current_phase None, and a rollback session begun for the phase has
\* been resolved exactly once, committed when the phase completed and rolled
\* back otherwise, with _current_session_id None; a request for an invalid
\* phase begins no session and leaves current_phase as it was.
C31_PhaseReturnResolvesSession ==
    /\ FaseTerminada =>
          /\ current_phase = NoneInt
          /\ llamada.inicio =>
                /\ current_session_id = NoneInt
                /\ Resoluciones = (IF llamada.status = "completed"
                                   THEN <<"commit">> ELSE <<"rollback">>)
    /\ (llamada.fin = "return" /\ llamada.status = "invalid") =>
          /\ ~llamada.inicio
          /\ current_phase = llamada.fase_antes

\* The results of a _run_all that ran nothing: every phase as stopped.
TodasParadas == Restantes(1)

\* C32 (as claimed): a stop command only affects the execution in progress:
\* when stop is processed while no phase is running, the run_all answered
\* next does not report all phases as stopped but runs its enabled phases
\* from phase 1, and the run_phase answered next runs the phase.
C32_StopWhileIdleIsForgotten ==
    (pb_pc = "idle" /\ respuesta_cmd.antes = "stop") =>
        /\ respuesta_cmd.action = "run_all" =>
              /\ results # TodasParadas
              /\ (results # <<>> /\ results[1] = "stopped") =>
                    llamada.env = "procesar_interrumpido"
        /\ (/\ respuesta_cmd.action = "run_phase"
            /\ llamada.status \notin {"unavailable", "invalid"}
            /\ llamada.env = "ok") => llamada.status = "completed"

-----------------------------------------------------------------------------
(* llm_provider.py: LLMProvider() called by several threads at once.  The
   interpreter switches threads between bytecodes, so that each read and each
   write of LLMProvider._instance and of self._llm is a step of its own.
   ConfigLLM is valid for mode 'api' or 'local' and the backend answers the
   probe. *)

InitHilos ==
    /\ InvokeEnReposo
    /\ DelayEnReposo
    /\ ProveedorEnReposo
    /\ TextoEnReposo
    /\ ReintentosEnReposo
    /\ ResumenEnReposo
    /\ CandidatoEnReposo
    /\ PuenteEnReposo
    /\ HilosEnReposo

\* Thread t goes on to position a.
Avanza(t, a) == th_pc' = [th_pc EXCEPT ![t] = a]

\* Thread t calls LLMProvider().
Llamar(t) ==
    /\ th_pc[t] = "reposo"
    /\ Avanza(t, "new_test")
    /\ UNCHANGED <<th_instance, th_llm, th_self, th_clientes, th_sondas, th_obtenido>>
    /\ UNCHANGED varsFueraDeHilos

\* __new__: if cls._instance is None
NewTest(t) ==
    /\ th_pc[t] = "new_test"
    /\ Avanza(t, IF th_instance = Ninguno THEN "new_set" ELSE "new_return")
    /\ UNCHANGED <<th_instance, th_llm, th_self, th_clientes, th_sondas, th_obtenido>>
    /\ UNCHANGED varsFueraDeHilos

\* __new__: cls._instance = super().__new__(cls)
NewSet(t) ==
    /\ th_pc[t] = "new_set"
    /\ th_instance' = t
    /\ Avanza(t, "new_return")
    /\ UNCHANGED <<th_llm, th_self, th_clientes, th_sondas, th_obtenido>>
    /\ UNCHANGED varsFueraDeHilos

\* __new__: return cls._instance
NewReturn(t) ==
    /\ th_pc[t] = "new_return"
    /\ th_self' = [th_self EXCEPT ![t] = th_instance]
    /\ Avanza(t, "init_test")
    /\ UNCHANGED <<th_instance, th_llm, th_clientes, th_sondas, th_obtenido>>
    /\ UNCHANGED varsFueraDeHilos

\* __init__: if self._llm is None
InitTest(t) ==
    /\ th_pc[t] = "init_test"
    /\ Avanza(t, IF th_llm[th_self[t]] = Ninguno THEN "init_cliente" ELSE "get_llm")
    /\ UNCHANGED <<th_instance, th_llm, th_self, th_clientes, th_sondas, th_obtenido>>
    /\ UNCHANGED varsFueraDeHilos

\* _inicializar_openai / _inicializar_ollama: self._llm = ChatOpenAI(...)
InitCliente(t) ==
    /\ th_pc[t] = "init_cliente"
    /\ th_llm' = [th_llm EXCEPT ![th_self[t]] = t]
    /\ th_clientes' = th_clientes + 1
    /\ Avanza(t, "init_sonda")
    /\ UNCHANGED <<th_instance, th_self, th_sondas, th_obtenido>>
    /\ UNCHANGED varsFueraDeHilos

\* _validar_openai / _validar_ollama: self._llm.invoke(...), the probe, on
\* the client that self._llm holds at that moment.
InitSonda(t) ==
    /\ th_pc[t] = "init_sonda"
    /\ th_sondas' = Append(th_sondas, th_llm[th_self[t]])
    /\ Avanza(t, "get_llm")
    /\ UNCHANGED <<th_instance, th_llm, th_self, th_clientes, th_obtenido>>
    /\ UNCHANGED varsFueraDeHilos

\* get_llm(): return self._llm
HiloGetLlm(t) ==
    /\ th_pc[t] = "get_llm"
    /\ th_obtenido' = [th_obtenido EXCEPT ![t] = th_llm[th_self[t]]]
    /\ Avanza(t, "hecho")
    /\ UNCHANGED <<th_instance, th_llm, th_self, th_clientes, th_sondas>>
    /\ UNCHANGED varsFueraDeHilos

NextHilos ==
    \E t \in Hilos :
        \/ Llamar(t)
        \/ NewTest(t)
        \/ NewSet(t)
        \/ NewReturn(t)
        \/ InitTest(t)
        \/ InitCliente(t)
        \/ InitSonda(t)
        \/ HiloGetLlm(t)

SpecHilos == InitHilos /\ [][NextHilos]_vars

\* Every thread has its provider and its handle.
TodosHechos == \A t \in Hilos : th_pc[t] = "hecho"

\* C34 (as claimed): when the threads construct LLMProvider() for the first
\* time concurrently, in every interleaving the backend client is built and
\* probed exactly once and all threads obtain the same provider instance and
\* the same handle.
C34_ConcurrentConstructionInitializesOnce ==
    TodosHechos =>
        /\ th_clientes = 1
        /\ Len(th_sondas) = 1
        /\ \A t, u \in Hilos : th_self[t] = th_self[u] /\ th_obtenido[t] = th_obtenido[u]

====
